---- MODULE Spec2Model ----
(***************************************************************************)
(* A model of AlignTK's image, bitmap and map I/O layer (imio.c), and of   *)
(* the master/worker dispatcher of prun / libpar.                          *)
(*                                                                         *)
(* The state is the file system the routines read and write, the two      *)
(* static extension caches of imio.c, the outcome of the most recent call  *)
(* and a record of the most recent write call.  Files are byte sequences;  *)
(* headers are formatted and parsed byte by byte, as fprintf, fscanf and   *)
(* ReadHeader do.  TIFF files, which imio.c reads and writes through       *)
(* libtiff, are kept as the tags and strip data the library stores.        *)
(***************************************************************************)
EXTENDS Integers, Sequences, FiniteSets, TLC

VARIABLES
  fs,               \* path -> file, for the files that exist
  extension,        \* imio.c: static int extension
  bitmapExtension,  \* imio.c: static int bitmapExtension
  last,             \* the most recent call: its arguments, return value and outputs
  hist,             \* the most recent write call and whether its file is still as written
  master,           \* dispatcher: the master's queue and its record of every unit
  worker,           \* dispatcher: each worker's position and the unit it runs
  net,              \* dispatcher: the messages in flight, per worker and direction
  env               \* dispatcher: how often each unit still fails, and counts of events

vars == <<fs, extension, bitmapExtension, last, hist, master, worker, net, env>>

\* The state of the I/O layer and the state of the dispatcher.
ioVars == <<fs, extension, bitmapExtension, last, hist>>
dispVars == <<master, worker, net, env>>

-----------------------------------------------------------------------------
(* Characters and strings.                                                 *)

\* ASCII codes of the characters that occur in the headers and names used here.
Ord ==
  ("0" :> 48) @@ ("1" :> 49) @@ ("2" :> 50) @@ ("3" :> 51) @@ ("4" :> 52) @@
  ("5" :> 53) @@ ("6" :> 54) @@ ("7" :> 55) @@ ("8" :> 56) @@ ("9" :> 57) @@
  ("\n" :> 10) @@ ("\t" :> 9) @@
  (" " :> 32) @@ ("#" :> 35) @@ ("-" :> 45) @@ ("+" :> 43) @@ ("." :> 46) @@
  ("B" :> 66) @@ ("M" :> 77) @@ ("P" :> 80) @@ ("X" :> 88) @@
  ("a" :> 97) @@ ("b" :> 98) @@ ("c" :> 99) @@ ("f" :> 102) @@ ("i" :> 105) @@
  ("m" :> 109) @@ ("r" :> 114) @@ ("x" :> 120)

\* The bytes of a C string literal.
Str(s) == [i \in 1..Len(s) |-> Ord[SubSeq(s, i, i)]]

NL == Ord["\n"]
TAB == Ord["\t"]
EOF == 0 - 1                \* stdio's EOF

IsDigit(c) == c >= Ord["0"] /\ c <= Ord["9"]

\* isspace() in the C locale: space, \t, \n, \v, \f, \r.
IsSpace(c) == c = Ord[" "] \/ (c >= 9 /\ c <= 13)

\* tolower() on one character of a path.
ToLower(ch) ==
  CASE ch = "A" -> "a" [] ch = "B" -> "b" [] ch = "E" -> "e" [] ch = "F" -> "f"
    [] ch = "G" -> "g" [] ch = "I" -> "i" [] ch = "J" -> "j" [] ch = "M" -> "m"
    [] ch = "P" -> "p" [] ch = "T" -> "t" [] ch = "Z" -> "z"
    [] OTHER -> ch

RECURSIVE LowerStr(_)
LowerStr(s) ==
  IF Len(s) = 0 THEN ""
  ELSE ToLower(SubSeq(s, 1, 1)) \o LowerStr(SubSeq(s, 2, Len(s)))

\* strcasecmp(&filename[len-n], ext) == 0 for an n-character ext; the caller
\* states the length condition separately, as the code does.
SuffixCaseEq(filename, ext) ==
  LET len == Len(filename)
      n == Len(ext)
  IN  len >= n /\ LowerStr(SubSeq(filename, len - n + 1, len)) = LowerStr(ext)

\* fprintf("%d"): decimal digits, with a leading '-' for a negative value.
RECURSIVE FmtNat(_)
FmtNat(n) ==
  IF n < 10 THEN <<Ord["0"] + n>>
  ELSE FmtNat(n \div 10) \o <<Ord["0"] + (n % 10)>>

FmtInt(n) == IF n < 0 THEN <<Ord["-"]>> \o FmtNat(0 - n) ELSE FmtNat(n)

-----------------------------------------------------------------------------
(* Streams: a FILE* is the file's bytes and a 1-based read position.       *)

\* fgetc at position p.
Getc(b, p) == IF p >= 1 /\ p <= Len(b) THEN b[p] ELSE EOF

\* fread of n bytes at position p: the bytes actually available.
Fread(b, p, n) ==
  IF p > Len(b) \/ n <= 0 THEN <<>>
  ELSE SubSeq(b, p, IF p + n - 1 <= Len(b) THEN p + n - 1 ELSE Len(b))

\* while ((c = fgetc(f)) != EOF && c != '\n') ;  -- p is the next position to read;
\* the result is the last character read and the position after it.
RECURSIVE SkipLine(_, _)
SkipLine(b, p) ==
  LET c == Getc(b, p)
  IN  IF c = EOF THEN [c |-> c, p |-> p]
      ELSE IF c = NL THEN [c |-> c, p |-> p + 1]
      ELSE SkipLine(b, p + 1)

\* while (c == '#') { skip the rest of the line }  -- the loop before the magic number.
RECURSIVE LeadingComments(_, _, _)
LeadingComments(b, c, p) ==
  IF c = Ord["#"]
  THEN LET s == SkipLine(b, p) IN LeadingComments(b, s.c, s.p)
  ELSE [c |-> c, p |-> p]

\* while (c == ' ' || c == '\t' || c == '\n' || c == '#')
\*   if (c == '#') skip the rest of the line; else c = fgetc(f);
RECURSIVE SkipBlanks(_, _, _)
SkipBlanks(b, c, p) ==
  IF c = Ord["#"]
  THEN LET s == SkipLine(b, p) IN SkipBlanks(b, s.c, s.p)
  ELSE IF c = Ord[" "] \/ c = TAB \/ c = NL
  THEN SkipBlanks(b, Getc(b, p), IF Getc(b, p) = EOF THEN p ELSE p + 1)
  ELSE [c |-> c, p |-> p]

\* v = 0; while (c != EOF && c >= '0' && c <= '9') { v = 10*v + (c-'0'); c = fgetc(f); }
RECURSIVE ReadDigits(_, _, _, _)
ReadDigits(b, c, p, v) ==
  IF c # EOF /\ IsDigit(c)
  THEN ReadDigits(b, Getc(b, p), IF Getc(b, p) = EOF THEN p ELSE p + 1,
                  10 * v + (c - Ord["0"]))
  ELSE [c |-> c, p |-> p, v |-> v]

\* One "skip blanks, then a number" step of ReadHeader, from the character s.c.
ReadNumber(b, s) ==
  IF IsDigit(s.c)
  THEN [ok |-> TRUE] @@ ReadDigits(b, s.c, s.p, 0)
  ELSE [ok |-> FALSE, c |-> s.c, p |-> s.p, v |-> 0 - 1]

ReadField(b, c, p) == ReadNumber(b, SkipBlanks(b, c, p))

\* The header fields a failed ReadHeader has not assigned.
NoHeader == [ok |-> FALSE, tc |-> 0 - 1, w |-> 0 - 1, h |-> 0 - 1, m |-> 0 - 1, p |-> 1]

\* ReadHeader after the height: a P4 header ends there, the others go on to maxval.
HeaderMaxval(tc, fw, fh, fm) ==
  IF ~fm.ok THEN [NoHeader EXCEPT !.tc = tc, !.w = fw.v, !.h = fh.v]
  ELSE [ok |-> TRUE, tc |-> tc, w |-> fw.v, h |-> fh.v, m |-> fm.v, p |-> fm.p]

HeaderHeight(b, tc, fw, fh) ==
  IF ~fh.ok THEN [NoHeader EXCEPT !.tc = tc, !.w = fw.v]
  ELSE IF tc = Ord["4"]
  THEN [ok |-> TRUE, tc |-> tc, w |-> fw.v, h |-> fh.v, m |-> 0 - 1, p |-> fh.p]
  ELSE HeaderMaxval(tc, fw, fh, ReadField(b, fh.c, fh.p))

HeaderWidth(b, tc, fw) ==
  IF ~fw.ok THEN [NoHeader EXCEPT !.tc = tc]
  ELSE HeaderHeight(b, tc, fw, ReadField(b, fw.c, fw.p))

\* ReadHeader after the leading comment loop left character c0.c.
HeaderMagic(b, c0, tc) ==
  IF c0.c # Ord["P"] THEN NoHeader
  ELSE IF tc # Ord["4"] /\ tc # Ord["5"] /\ tc # Ord["6"] THEN NoHeader
  ELSE HeaderWidth(b, tc, ReadField(b, Getc(b, c0.p + 1), c0.p + 2))

HeaderType(b, c0) == HeaderMagic(b, c0, Getc(b, c0.p))

\* ReadHeader (and ReadGZHeader, which is the same code over gzgetc): the netpbm
\* header of the stream b.  p is the position of the first unread byte.
ReadHeader(b) == HeaderType(b, LeadingComments(b, Getc(b, 1), 2))

-----------------------------------------------------------------------------
(* Files.                                                                  *)

\* The tags of a file that is not a TIFF.
NoTags ==
  [w |-> 0, h |-> 0, bps |-> 0, spp |-> 0, photo |-> "none", comp |-> "none",
   quality |-> 0]

\* A file written with fopen/fwrite: its bytes.
RawFile(bytes) == [kind |-> "raw", bytes |-> bytes, tags |-> NoTags]

\* A file written through libtiff: the tags set with TIFFSetField and the strip
\* data written with TIFFWriteScanline.
TiffFile(tags, data) == [kind |-> "tiff", bytes |-> data, tags |-> tags]

\* A file written through libjpeg: its dimensions and quality, and the pixels
\* a decoder gets back from it.
JpegFile(tags, data) == [kind |-> "jpeg", bytes |-> data, tags |-> tags]

\* stat(fn, &sb) == 0
Exists(f, fn) == fn \in DOMAIN f

\* The file system f with the file fn created or replaced.
Store(f, fn, file) == (fn :> file) @@ f

\* What fopen(fn, "rb") then reads: the bytes of a raw file; a TIFF file starts
\* with the TIFF byte-order mark and version ("II*\0"), a JPEG file with the
\* SOI and APP0 markers.
StreamOf(f, fn) ==
  IF f[fn].kind = "raw" THEN f[fn].bytes
  ELSE IF f[fn].kind = "tiff" THEN <<73, 73, 42, 0>>
  ELSE <<255, 216, 255, 224>>

\* zlib: what gzwrite stores for a payload (the gzip magic, then the deflated
\* payload, modelled as its bytewise complement) ...
GzEncode(data) == <<31, 139>> \o [i \in 1..Len(data) |-> 255 - data[i]]

\* ... and what gzgetc/gzread deliver: the inflated payload of a gzip stream, or
\* the bytes themselves when the file does not start with the gzip magic
\* (zlib reads such files transparently).
GzStream(bytes) ==
  IF Len(bytes) >= 2 /\ bytes[1] = 31 /\ bytes[2] = 139
  THEN [i \in 1..(Len(bytes) - 2) |-> 255 - bytes[i + 2]]
  ELSE bytes

-----------------------------------------------------------------------------
(* Call records.                                                           *)

\* The outcome of a call: ret is the return value, err whether the error buffer
\* was written, the rest the output parameters (0 - 1 and <<>> when not assigned).
\* ext0, probes and file describe an extension probe: the cached index before
\* the call, the indices probed in order, and the file that was opened.
\* leaked counts the handles the call opened and did not close.
NoCall ==
  [op |-> "none", path |-> "", ret |-> 0 - 1, err |-> FALSE,
   width |-> 0 - 1, height |-> 0 - 1, data |-> <<>>,
   level |-> 0 - 1, xMin |-> 0 - 1, yMin |-> 0 - 1,
   imageName |-> <<>>, referenceName |-> <<>>,
   ext0 |-> 0 - 1, probes |-> <<>>, file |-> "", leaked |-> 0, region |-> <<>>,
   method |-> "none"]

\* The arguments of the most recent write call that succeeded (of a failed one
\* only op, path, method and ret), the file it wrote, and whether that file is
\* still as the call left it ("intact") or has since been cut short
\* ("truncated") or grown ("extended").
NoWrite ==
  [op |-> "none", path |-> "", file |-> "", ret |-> 0 - 1, state |-> "none",
   width |-> 0, height |-> 0, data |-> <<>>, method |-> "none",
   level |-> 0, xMin |-> 0, yMin |-> 0,
   imageName |-> <<>>, referenceName |-> <<>>]

-----------------------------------------------------------------------------
(* Maps.                                                                   *)

\* sizeof(MapElement): three floats.
SizeofMapElement == 12

\* fscanf("%d"): skip white space, an optional sign, then at least one digit.
RECURSIVE SkipSpace(_, _)
SkipSpace(b, p) == IF IsSpace(Getc(b, p)) THEN SkipSpace(b, p + 1) ELSE p

RECURSIVE ScanDigits(_, _, _)
ScanDigits(b, p, v) ==
  IF IsDigit(Getc(b, p)) THEN ScanDigits(b, p + 1, 10 * v + (Getc(b, p) - Ord["0"]))
  ELSE [p |-> p, v |-> v]

ScanNumber(b, negative, q, d) ==
  IF IsDigit(Getc(b, q))
  THEN [ok |-> TRUE, v |-> IF negative THEN 0 - d.v ELSE d.v, p |-> d.p]
  ELSE [ok |-> FALSE, v |-> 0 - 1, p |-> q]

ScanSign(b, p, q) == ScanNumber(b, Getc(b, p) = Ord["-"], q, ScanDigits(b, q, 0))

ScanIntAt(b, p) ==
  ScanSign(b, p, IF Getc(b, p) = Ord["-"] \/ Getc(b, p) = Ord["+"] THEN p + 1 ELSE p)

ScanInt(b, p0) == ScanIntAt(b, SkipSpace(b, p0))

\* fscanf("%s"): skip white space, then the characters up to the next white space.
RECURSIVE ScanWord(_, _)
ScanWord(b, p) ==
  IF Getc(b, p) = EOF \/ IsSpace(Getc(b, p)) THEN p ELSE ScanWord(b, p + 1)

ScanStrTo(b, p, q) ==
  IF q > p THEN [ok |-> TRUE, v |-> SubSeq(b, p, q - 1), p |-> q]
  ELSE [ok |-> FALSE, v |-> <<>>, p |-> p]

ScanStrAt(b, p) == ScanStrTo(b, p, ScanWord(b, p))

ScanStr(b, p0) == ScanStrAt(b, SkipSpace(b, p0))

\* fscanf with the conversions fmt ("d" or "s" each) from position p: the values
\* converted, in order, up to the first conversion that fails.
RECURSIVE ScanFields(_, _, _)
ScanCons(v, rest) == [vals |-> <<v>> \o rest.vals, p |-> rest.p]

ScanRest(b, fmt, f) ==
  IF ~f.ok THEN [vals |-> <<>>, p |-> f.p]
  ELSE ScanCons(f.v, ScanFields(b, f.p, Tail(fmt)))

ScanFields(b, p, fmt) ==
  IF fmt = <<>> THEN [vals |-> <<>>, p |-> p]
  ELSE ScanRest(b, fmt, IF Head(fmt) = "d" THEN ScanInt(b, p) ELSE ScanStr(b, p))

\* The i-th value of a scan, or what an unassigned variable is shown as.
Field(sc, i, unset) == IF i <= Len(sc.vals) THEN sc.vals[i] ELSE unset

\* ReadMap's header test: fgetc 'M', '1', '\n', then
\* fscanf("%d%d%d%d%d%s%s") != 7, then fgetc '\n'.  The scan stores each value it
\* converts before it goes on, so a failed header leaves the earlier ones assigned.
MapHeaderFields(b, sc) ==
  [ok |-> Len(sc.vals) = 7 /\ Getc(b, sc.p) = NL,
   level |-> Field(sc, 1, 0 - 1),
   mapWidth |-> Field(sc, 2, 0 - 1),
   mapHeight |-> Field(sc, 3, 0 - 1),
   xMin |-> Field(sc, 4, 0 - 1),
   yMin |-> Field(sc, 5, 0 - 1),
   imgName |-> Field(sc, 6, <<>>),
   refName |-> Field(sc, 7, <<>>),
   p |-> sc.p + 1]

ScanMapHeader(b) ==
  IF Getc(b, 1) = Ord["M"] /\ Getc(b, 2) = Ord["1"] /\ Getc(b, 3) = NL
  THEN MapHeaderFields(b, ScanFields(b, 4, <<"d", "d", "d", "d", "d", "s", "s">>))
  ELSE MapHeaderFields(b, [vals |-> <<>>, p |-> 1])

\* ReadMapElements without the test of fread's element count.
ReadMapElementsUnchecked(h, n, body) ==
  IF ~h.ok
  THEN [NoCall EXCEPT !.ret = 0, !.err = TRUE, !.leaked = 1,
                      !.level = h.level, !.xMin = h.xMin, !.yMin = h.yMin]
  ELSE [NoCall EXCEPT !.ret = 1,
                      !.level = h.level, !.xMin = h.xMin, !.yMin = h.yMin,
                      !.imageName = h.imgName, !.referenceName = h.refName,
                      !.width = h.mapWidth, !.height = h.mapHeight, !.data = body]

\* ReadMap after the header test.  The handle is closed only on the successful
\* return.  malloc(0) is taken to return a block, as glibc does.
ReadMapElements(h, n, body) ==
  IF ~h.ok
  THEN [NoCall EXCEPT !.ret = 0, !.err = TRUE, !.leaked = 1,
                      !.level = h.level, !.xMin = h.xMin, !.yMin = h.yMin]
  ELSE IF n < 0
  THEN [NoCall EXCEPT !.ret = 0, !.err = TRUE, !.leaked = 1,
                      !.level = h.level, !.xMin = h.xMin, !.yMin = h.yMin,
                      !.imageName = h.imgName, !.referenceName = h.refName]
  ELSE [NoCall EXCEPT !.ret = IF Len(body) \div SizeofMapElement # n THEN 0 ELSE 1,
                      !.err = Len(body) \div SizeofMapElement # n,
                      !.leaked = IF Len(body) \div SizeofMapElement # n THEN 1 ELSE 0,
                      !.level = h.level, !.xMin = h.xMin, !.yMin = h.yMin,
                      !.imageName = h.imgName, !.referenceName = h.refName,
                      !.width = h.mapWidth, !.height = h.mapHeight, !.data = body]

ReadMapBody(b, h) ==
  ReadMapElements(h, h.mapWidth * h.mapHeight,
                  IF h.ok THEN Fread(b, h.p, h.mapWidth * h.mapHeight * SizeofMapElement)
                  ELSE <<>>)

\* ReadMap on the stream b of an opened file.
ReadMapStream(b) == ReadMapBody(b, ScanMapHeader(b))

\* ReadMap(filename, ...), with imageName and referenceName both requested.
ReadMap(filename) ==
  /\ last' = IF ~Exists(fs, filename)
             THEN [NoCall EXCEPT !.op = "ReadMap", !.path = filename,
                                 !.ret = 0, !.err = TRUE]
             ELSE [ReadMapStream(StreamOf(fs, filename)) EXCEPT
                     !.op = "ReadMap", !.path = filename, !.file = filename]
  /\ UNCHANGED <<dispVars, fs, extension, bitmapExtension, hist>>

\* MapHeader with xMin and yMin printed in the wrong order.
MapHeaderSwapped(level, width, height, xMin, yMin, imageName, referenceName) ==
  Str("M1") \o <<NL>> \o
  FmtInt(level) \o <<NL>> \o
  FmtInt(width) \o Str(" ") \o FmtInt(height) \o <<NL>> \o
  FmtInt(yMin) \o Str(" ") \o FmtInt(xMin) \o <<NL>> \o
  imageName \o Str(" ") \o referenceName \o <<NL>>

\* The header WriteMap prints.
MapHeader(level, width, height, xMin, yMin, imageName, referenceName) ==
  Str("M1") \o <<NL>> \o
  FmtInt(level) \o <<NL>> \o
  FmtInt(width) \o Str(" ") \o FmtInt(height) \o <<NL>> \o
  FmtInt(xMin) \o Str(" ") \o FmtInt(yMin) \o <<NL>> \o
  imageName \o Str(" ") \o referenceName \o <<NL>>

\* WriteMap(filename, map, level, width, height, xMin, yMin, imageName,
\* referenceName, compressionMethod).  map holds width*height elements.  fwrite of
\* a zero-size object returns 0, so an empty map is reported as a write error;
\* the handle is then left open, and the header is on disk or still in the
\* stdio buffer (flushed).
WriteMap(filename, map, level, width, height, xMin, yMin, imageName, referenceName, compressionMethod, flushed) ==
  LET hdr == MapHeader(level, width, height, xMin, yMin, imageName, referenceName)
      failed == [NoWrite EXCEPT !.op = "WriteMap", !.path = filename, !.ret = 0,
                   !.method = compressionMethod]
      args == [failed EXCEPT !.file = filename, !.ret = 1, !.state = "intact",
                 !.width = width, !.height = height, !.data = map, !.level = level,
                 !.xMin = xMin, !.yMin = yMin,
                 !.imageName = imageName, !.referenceName = referenceName]
      call == [NoCall EXCEPT !.op = "WriteMap", !.path = filename]
  IN  IF compressionMethod # "UncompressedMap"
      THEN /\ last' = [call EXCEPT !.ret = 0, !.err = TRUE]
           /\ hist' = failed
           /\ UNCHANGED <<dispVars, fs, extension, bitmapExtension>>
      ELSE IF width * height * SizeofMapElement = 0
      THEN /\ fs' = Store(fs, filename, RawFile(IF flushed THEN hdr ELSE <<>>))
           /\ last' = [call EXCEPT !.ret = 0, !.err = TRUE, !.leaked = 1,
                                   !.file = filename]
           /\ hist' = failed
           /\ UNCHANGED <<dispVars, extension, bitmapExtension>>
      ELSE /\ fs' = Store(fs, filename, RawFile(hdr \o map))
           /\ last' = [call EXCEPT !.ret = 1, !.file = filename]
           /\ hist' = args
           /\ UNCHANGED <<dispVars, extension, bitmapExtension>>

-----------------------------------------------------------------------------
(* Image readers.                                                          *)

\* A failed call: return(0) after sprintf(error, ...), with `leaked` handles left open.
Failed(leaked) == [NoCall EXCEPT !.ret = 0, !.err = TRUE, !.leaked = leaked]

\* A call that did not return: libjpeg's default error_exit ends the process.
Exited == [NoCall EXCEPT !.ret = 0 - 2]

\* A call that did not return: a NULL pointer was dereferenced.
Faulted == [NoCall EXCEPT !.ret = 0 - 3]

\* A successful reader: return(1) with the outputs assigned.
Loaded(width, height, data) ==
  [NoCall EXCEPT !.ret = 1, !.width = width, !.height = height, !.data = data]

\* The part shared by the Pgm and Ppm size readers after fopen: neither looks at
\* the type character ReadHeader hands back.
PnmSize(h) == IF ~h.ok THEN Failed(1) ELSE Loaded(h.w, h.h, <<>>)

ReadPgmImageSize(f, filename) ==
  IF ~Exists(f, filename) THEN Failed(0) ELSE PnmSize(ReadHeader(StreamOf(f, filename)))

ReadPpmImageSize(f, filename) ==
  IF ~Exists(f, filename) THEN Failed(0) ELSE PnmSize(ReadHeader(StreamOf(f, filename)))

\* fread(b, 1, iw * ih, f) with its count left unchecked.
PnmPixelsUnchecked(h, body) == Loaded(h.w, h.h, body)

\* fread(b, 1, iw * ih, f) != iw * ih
PnmPixels(h, body) ==
  IF Len(body) # h.w * h.h THEN Failed(1) ELSE Loaded(h.w, h.h, body)

\* The part shared by ReadPgmImage and ReadPpmImage after fopen: the header, then
\* iw * ih bytes, whatever the type character.
PnmImage(b, h) == IF ~h.ok THEN Failed(1) ELSE PnmPixels(h, Fread(b, h.p, h.w * h.h))

PnmStream(b) == PnmImage(b, ReadHeader(b))

ReadPgmImage(f, filename) ==
  IF ~Exists(f, filename) THEN Failed(0) ELSE PnmStream(StreamOf(f, filename))

ReadPpmImage(f, filename) ==
  IF ~Exists(f, filename) THEN Failed(0) ELSE PnmStream(StreamOf(f, filename))

\* TIFFOpen(filename, "r") succeeds on a file libtiff wrote and closed.
TiffOpens(f, filename) == Exists(f, filename) /\ f[filename].kind = "tiff"

ReadTiffImageSize(f, filename) ==
  IF ~TiffOpens(f, filename) THEN Failed(0)
  ELSE Loaded(f[filename].tags.w, f[filename].tags.h, <<>>)

\* ReadTiffImage: 8 bits per sample, one sample per pixel; the strips in order;
\* the bits flipped unless the photometric interpretation is min-is-black.
TiffPixels(file) ==
  IF file.tags.photo = "MINISBLACK" THEN file.bytes
  ELSE [i \in 1..Len(file.bytes) |-> 255 - file.bytes[i]]

ReadTiffImage(f, filename) ==
  IF ~TiffOpens(f, filename) THEN Failed(0)
  ELSE IF f[filename].tags.bps # 8 THEN Failed(1)
  ELSE IF f[filename].tags.spp # 1 THEN Failed(1)
  ELSE Loaded(f[filename].tags.w, f[filename].tags.h, TiffPixels(f[filename]))

\* libjpeg reads a JPEG file; on anything else its error handler exits.
ReadJpgImageSize(f, filename) ==
  IF ~Exists(f, filename) THEN Failed(0)
  ELSE IF f[filename].kind # "jpeg" THEN Exited
  ELSE Loaded(f[filename].tags.w, f[filename].tags.h, <<>>)

ReadJpgImage(f, filename) ==
  IF ~Exists(f, filename) THEN Failed(0)
  ELSE IF f[filename].kind # "jpeg" THEN Exited
  ELSE Loaded(f[filename].tags.w, f[filename].tags.h, f[filename].bytes)

\* BMP_FILE_TYPE, BMP_FILE_HEADER_SIZE, BMP_INFO_HEADER_SIZE
BMP_FILE_TYPE == 19778
BMP_FILE_HEADER_SIZE == 14
BMP_INFO_HEADER_SIZE == 40

\* Little-endian fields of a BMP header, at 0-based offset o of the stream b.
U16(b, o) == b[o + 1] + 256 * b[o + 2]
U32(b, o) == b[o + 1] + 256 * b[o + 2] + 65536 * b[o + 3] + 16777216 * b[o + 4]
I32(b, o) ==
  b[o + 1] + 256 * b[o + 2] + 65536 * b[o + 3]
  + 16777216 * (IF b[o + 4] >= 128 THEN b[o + 4] - 256 ELSE b[o + 4])

\* The fields the BMP readers use.  The fread calls follow one another from the
\* start of the file: bfType at 0, bfOffset at 10, biWidth at 18, biHeight at
\* 22, biBitCount at 28; biColorImportant ends the headers.
BmpType(b) == U16(b, 0)
BmpOffset(b) == U32(b, 10)
BmpWidth(b) == I32(b, BMP_FILE_HEADER_SIZE + 4)
BmpHeight(b) == I32(b, BMP_FILE_HEADER_SIZE + 8)
BmpBitCount(b) == U16(b, BMP_FILE_HEADER_SIZE + 14)

\* ReadBmpImageSize: every field is read, only bfType is tested; no return
\* before the last closes the file.
BmpSize(b) ==
  IF Len(b) < 2 \/ BmpType(b) # BMP_FILE_TYPE THEN Failed(1)
  ELSE IF Len(b) < BMP_FILE_HEADER_SIZE + BMP_INFO_HEADER_SIZE THEN Failed(1)
  ELSE Loaded(BmpWidth(b), BmpHeight(b), <<>>)

ReadBmpImageSize(f, filename) ==
  IF ~Exists(f, filename) THEN Failed(0) ELSE BmpSize(StreamOf(f, filename))

\* rowsize = (int)(ceil((info.biBitCount*(*width)/32)*4)): the division is an
\* integer division, so ceil has nothing to round.
BmpRowSize(bitCount, width) == ((bitCount * width) \div 32) * 4

\* The rows ReadBmpImage reads, i from *height down to 1: the row read at
\* (0-based) position pos goes to output row i-1, then fseek(f, rowsize-width,
\* SEEK_CUR).  data is the output rows 0 to i-1, top row first; ok is FALSE when
\* a read came short.
RECURSIVE BmpRows(_, _, _, _, _)
BmpRowsCons(row, above) == [ok |-> above.ok, data |-> above.data \o row]

BmpRowsNext(b, pos, i, width, rowsize, row) ==
  IF Len(row) # width THEN [ok |-> FALSE, data |-> <<>>]
  ELSE BmpRowsCons(row, BmpRows(b, pos + rowsize, i - 1, width, rowsize))

BmpRows(b, pos, i, width, rowsize) ==
  IF i <= 0 THEN [ok |-> TRUE, data |-> <<>>]
  ELSE BmpRowsNext(b, pos, i, width, rowsize, Fread(b, pos + 1, width))

BmpPixels(width, height, rows) ==
  IF ~rows.ok
  THEN [Failed(1) EXCEPT !.width = width, !.height = height]
  ELSE Loaded(width, height, rows.data)

\* ReadBmpImage after fopen.  *width and *height are assigned before the rows
\* are read, so they stay assigned when the call then fails.
BmpImage(b) ==
  IF Len(b) < 2 \/ BmpType(b) # BMP_FILE_TYPE THEN Failed(1)
  ELSE IF Len(b) < BMP_FILE_HEADER_SIZE + 16 THEN Failed(1)
  ELSE IF BmpBitCount(b) # 8 THEN Failed(1)
  ELSE IF Len(b) < BMP_FILE_HEADER_SIZE + BMP_INFO_HEADER_SIZE THEN Failed(1)
  ELSE IF BmpWidth(b) * BmpHeight(b) < 0
  THEN [Failed(1) EXCEPT !.width = BmpWidth(b), !.height = BmpHeight(b)]
  ELSE BmpPixels(BmpWidth(b), BmpHeight(b),
                 BmpRows(b, BmpOffset(b), BmpHeight(b), BmpWidth(b),
                         BmpRowSize(BmpBitCount(b), BmpWidth(b))))

ReadBmpImage(f, filename) ==
  IF ~Exists(f, filename) THEN Failed(0) ELSE BmpImage(StreamOf(f, filename))

-----------------------------------------------------------------------------
(* ReadImageSize and ReadImage.                                            *)

N_EXTENSIONS == 14

extensions ==
  <<".tif", ".tiff", ".TIF", ".TIFF", ".pgm", ".PGM", ".ppm", ".PPM",
    ".jpg", ".jpeg", ".JPG", ".JPEG", ".bmp", ".BMP">>

\* The probe loop: for (i = 0; i < limit; ++i) { k = (j + i) % modulus;
\* if (stat(filename + exts[k]) != 0) continue; ...; break; } from index i on.
\* probes lists the k tried in order; the last one is the file found, if any.
RECURSIVE Probe(_, _, _, _, _, _)
ProbeCons(k, rest) ==
  [found |-> rest.found, k |-> rest.k, probes |-> <<k>> \o rest.probes]

\* The loop taking the last candidate that exists instead of the first.
ProbeStepLast(f, filename, exts, j, i, limit, k) ==
  IF Exists(f, filename \o exts[k + 1]) /\ ~Probe(f, filename, exts, j, i + 1, limit).found
  THEN [found |-> TRUE, k |-> k, probes |-> <<k>>]
  ELSE ProbeCons(k, Probe(f, filename, exts, j, i + 1, limit))

ProbeStep(f, filename, exts, j, i, limit, k) ==
  IF Exists(f, filename \o exts[k + 1])
  THEN [found |-> TRUE, k |-> k, probes |-> <<k>>]
  ELSE ProbeCons(k, Probe(f, filename, exts, j, i + 1, limit))

Probe(f, filename, exts, j, i, limit) ==
  IF i >= limit THEN [found |-> FALSE, k |-> 0 - 1, probes |-> <<>>]
  ELSE ProbeStep(f, filename, exts, j, i, limit, (j + i) % Len(exts))

\* switch (k) of ReadImageSize.
ImageSizeReader(f, k, fn) ==
  IF k <= 3 THEN ReadTiffImageSize(f, fn)
  ELSE IF k <= 5 THEN ReadPgmImageSize(f, fn)
  ELSE IF k <= 7 THEN ReadPpmImageSize(f, fn)
  ELSE IF k <= 11 THEN ReadJpgImageSize(f, fn)
  ELSE ReadBmpImageSize(f, fn)

\* switch (k) of ReadImage.
ImageReader(f, k, fn) ==
  IF k <= 3 THEN ReadTiffImage(f, fn)
  ELSE IF k <= 5 THEN ReadPgmImage(f, fn)
  ELSE IF k <= 7 THEN ReadPpmImage(f, fn)
  ELSE IF k <= 11 THEN ReadJpgImage(f, fn)
  ELSE ReadBmpImage(f, fn)

ProbedImageSize(f, ext, filename, pr) ==
  IF ~pr.found THEN [Failed(0) EXCEPT !.ext0 = ext, !.probes = pr.probes]
  ELSE [ImageSizeReader(f, pr.k, filename \o extensions[pr.k + 1]) EXCEPT
          !.ext0 = ext, !.probes = pr.probes, !.file = filename \o extensions[pr.k + 1]]

\* ReadImageSize: the reader chosen by the extension, or by the probe.
ImageSizeCall(f, ext, filename) ==
  IF Len(filename) = 0 THEN [Failed(0) EXCEPT !.ext0 = ext]
  ELSE IF \/ Len(filename) > 4 /\ SuffixCaseEq(filename, ".tif")
          \/ Len(filename) > 5 /\ SuffixCaseEq(filename, ".tiff")
  THEN [ReadTiffImageSize(f, filename) EXCEPT !.ext0 = ext, !.file = filename]
  ELSE IF Len(filename) > 4 /\ SuffixCaseEq(filename, ".pgm")
  THEN [ReadPgmImageSize(f, filename) EXCEPT !.ext0 = ext, !.file = filename]
  ELSE IF Len(filename) > 4 /\ SuffixCaseEq(filename, ".ppm")
  THEN [ReadPpmImageSize(f, filename) EXCEPT !.ext0 = ext, !.file = filename]
  ELSE IF \/ Len(filename) > 4 /\ SuffixCaseEq(filename, ".jpg")
          \/ Len(filename) > 5 /\ SuffixCaseEq(filename, ".jpeg")
  THEN [ReadJpgImageSize(f, filename) EXCEPT !.ext0 = ext, !.file = filename]
  ELSE IF Len(filename) > 4 /\ SuffixCaseEq(filename, ".bmp")
  THEN [ReadBmpImageSize(f, filename) EXCEPT !.ext0 = ext, !.file = filename]
  ELSE ProbedImageSize(f, ext, filename, Probe(f, filename, extensions, ext, 0, N_EXTENSIONS))

\* The probe loop without its extension = k.
CacheKept(r, cache) == cache

\* extension = k, which only a probe that found a file its reader accepted reaches.
CacheAfter(r, cache) ==
  IF r.ret = 1 /\ r.probes # <<>> THEN r.probes[Len(r.probes)] ELSE cache

\* A call that ended the process: the next one runs in a new process, whose
\* statics are at their initialisers again.
Restarted(r, cache) == IF r.ret < 0 - 1 THEN 0 ELSE cache

ImageSizeDone(filename, r) ==
  /\ last' = [r EXCEPT !.op = "ReadImageSize", !.path = filename]
  /\ extension' = Restarted(r, CacheAfter(r, extension))
  /\ bitmapExtension' = Restarted(r, bitmapExtension)
  /\ UNCHANGED <<dispVars, fs, hist>>

\* ReadImageSize(filename, &width, &height, error)
ReadImageSize(filename) == ImageSizeDone(filename, ImageSizeCall(fs, extension, filename))

ProbedImage(f, ext, filename, pr) ==
  IF ~pr.found THEN [Failed(0) EXCEPT !.ext0 = ext, !.probes = pr.probes]
  ELSE [ImageReader(f, pr.k, filename \o extensions[pr.k + 1]) EXCEPT
          !.ext0 = ext, !.probes = pr.probes, !.file = filename \o extensions[pr.k + 1]]

\* ReadImage up to the point where buffer, iw and ih are set: the reader chosen
\* by the extension (there is no branch for .ppm), or by the probe.
ImageCall(f, ext, filename) ==
  IF Len(filename) = 0 THEN [Failed(0) EXCEPT !.ext0 = ext]
  ELSE IF \/ Len(filename) > 4 /\ SuffixCaseEq(filename, ".tif")
          \/ Len(filename) > 5 /\ SuffixCaseEq(filename, ".tiff")
  THEN [ReadTiffImage(f, filename) EXCEPT !.ext0 = ext, !.file = filename]
  ELSE IF Len(filename) > 4 /\ SuffixCaseEq(filename, ".pgm")
  THEN [ReadPgmImage(f, filename) EXCEPT !.ext0 = ext, !.file = filename]
  ELSE IF \/ Len(filename) > 4 /\ SuffixCaseEq(filename, ".jpg")
          \/ Len(filename) > 5 /\ SuffixCaseEq(filename, ".jpeg")
  THEN [ReadJpgImage(f, filename) EXCEPT !.ext0 = ext, !.file = filename]
  ELSE IF Len(filename) > 4 /\ SuffixCaseEq(filename, ".bmp")
  THEN [ReadBmpImage(f, filename) EXCEPT !.ext0 = ext, !.file = filename]
  ELSE ProbedImage(f, ext, filename, Probe(f, filename, extensions, ext, 0, N_EXTENSIONS))

Zeros(n) == [i \in 1..n |-> 0]

\* The row without the memset that clears the columns past the right edge.
ImageRegionRowNoClear(buffer, iw, ih, y, xmin, xmax, w) ==
  IF y >= ih \/ xmin >= iw THEN Zeros(w)
  ELSE IF xmax < iw THEN SubSeq(buffer, y * iw + xmin + 1, y * iw + xmin + w)
  ELSE IF w < iw - xmin THEN SubSeq(buffer, y * iw + xmin + 1, y * iw + xmin + w)
  ELSE SubSeq(buffer, y * iw + xmin + 1, y * iw + iw) \o [i \in 1..(xmax - iw + 1) |-> 255]

\* One row of the requested region of ReadImage: memset / memcpy.
ImageRegionRow(buffer, iw, ih, y, xmin, xmax, w) ==
  IF y >= ih \/ xmin >= iw THEN Zeros(w)
  ELSE IF xmax < iw THEN SubSeq(buffer, y * iw + xmin + 1, y * iw + xmin + w)
  ELSE IF w < iw - xmin THEN SubSeq(buffer, y * iw + xmin + 1, y * iw + xmin + w)
  ELSE SubSeq(buffer, y * iw + xmin + 1, y * iw + iw) \o Zeros(xmax - iw + 1)

\* for (y = ymin; y <= ymax; ++y)
RECURSIVE ImageRegionRows(_, _, _, _, _, _, _, _)
ImageRegionRows(buffer, iw, ih, y, ymax, xmin, xmax, w) ==
  IF y > ymax THEN <<>>
  ELSE ImageRegionRow(buffer, iw, ih, y, xmin, xmax, w)
         \o ImageRegionRows(buffer, iw, ih, y + 1, ymax, xmin, xmax, w)

ImageRegionOf(r, xmin, xmax, ymin, ymax) ==
  [r EXCEPT !.width = xmax - xmin + 1, !.height = ymax - ymin + 1,
            !.data = ImageRegionRows(r.data, r.width, r.height, ymin, ymax,
                                     xmin, xmax, xmax - xmin + 1)]

\* ReadImage from the point where buffer, iw and ih are set: the whole image, or
\* the requested region of it.  A failed reader leaves the outputs unassigned.
ImageRegion(r, minX, maxX, minY, maxY) ==
  IF r.ret # 1 THEN [r EXCEPT !.width = 0 - 1, !.height = 0 - 1, !.data = <<>>]
  ELSE IF /\ minX <= 0 /\ (maxX < 0 \/ maxX = r.width - 1)
          /\ minY <= 0 /\ (maxY < 0 \/ maxY = r.height - 1)
  THEN r
  ELSE ImageRegionOf(r, IF minX < 0 THEN 0 ELSE minX,
                        IF maxX < 0 THEN r.width - 1 ELSE maxX,
                        IF minY < 0 THEN 0 ELSE minY,
                        IF maxY < 0 THEN r.height - 1 ELSE maxY)

ImageDone(filename, region, r) ==
  /\ last' = [r EXCEPT !.op = "ReadImage", !.path = filename, !.region = region]
  /\ extension' = Restarted(r, CacheAfter(r, extension))
  /\ bitmapExtension' = Restarted(r, bitmapExtension)
  /\ UNCHANGED <<dispVars, fs, hist>>

\* ReadImage(filename, &pixels, &width, &height, minX, maxX, minY, maxY, error),
\* for a region whose maxX and maxY are negative or not below minX and minY.
ReadImage(filename, minX, maxX, minY, maxY) ==
  /\ maxX < 0 \/ (maxX >= minX /\ maxX >= 0)
  /\ maxY < 0 \/ (maxY >= minY /\ maxY >= 0)
  /\ ImageDone(filename, <<minX, maxX, minY, maxY>>,
               ImageRegion(ImageCall(fs, extension, filename), minX, maxX, minY, maxY))

-----------------------------------------------------------------------------
(* WriteImage.                                                             *)

\* fprintf(f, "P5\n%d %d\n255\n", width, height) without the maxval line.
PgmHeaderNoMaxval(width, height) ==
  Str("P5") \o <<NL>> \o FmtInt(width) \o Str(" ") \o FmtInt(height) \o <<NL>>

\* fprintf(f, "P5\n%d %d\n255\n", width, height)
PgmHeader(width, height) ==
  Str("P5") \o <<NL>> \o FmtInt(width) \o Str(" ") \o FmtInt(height) \o <<NL>> \o
  Str("255") \o <<NL>>

\* The tags WriteImage sets on a TIFF.
TiffTags(width, height, compressionMethod) ==
  [NoTags EXCEPT !.w = width, !.h = height, !.bps = 8, !.spp = 1,
                 !.photo = "MINISBLACK", !.comp = compressionMethod]

\* The switch with every case setting quality = 75.
JpegQualityFixed(compressionMethod) ==
  IF compressionMethod \in {"JpegQuality95", "JpegQuality90", "JpegQuality85",
                            "JpegQuality80", "JpegQuality75", "JpegQuality70"}
  THEN 75 ELSE 0

\* switch (compressionMethod) of the .jpg branch; 0 stands for the default case.
JpegQuality(compressionMethod) ==
  CASE compressionMethod = "JpegQuality95" -> 95
    [] compressionMethod = "JpegQuality90" -> 90
    [] compressionMethod = "JpegQuality85" -> 85
    [] compressionMethod = "JpegQuality80" -> 80
    [] compressionMethod = "JpegQuality75" -> 75
    [] compressionMethod = "JpegQuality70" -> 70
    [] OTHER -> 0

\* libjpeg is lossy: a decoder gets each sample back quantised, the more coarsely
\* the lower the quality.
JpegStep(quality) == 1 + ((100 - quality) \div 5)

JpegDecoded(pixels, quality) ==
  [i \in 1..Len(pixels) |-> pixels[i] - (pixels[i] % JpegStep(quality))]

\* WriteJpgImage: the file jpeg_finish_compress and fclose leave.
WriteJpgImage(buffer, width, height, quality) ==
  JpegFile([NoTags EXCEPT !.w = width, !.h = height, !.bps = 8, !.spp = 1,
                          !.quality = quality],
           JpegDecoded(buffer, quality))

\* return(0) of a write call before any file was opened: no file changed.
WriteRefused(op, filename, compressionMethod) ==
  /\ last' = [Failed(0) EXCEPT !.op = op, !.path = filename,
                               !.method = compressionMethod]
  /\ UNCHANGED <<dispVars, fs, extension, bitmapExtension, hist>>

\* return(0) of a write call after the file was opened for writing: the file
\* holds what reached it, and the handle is left open.
WriteBroken(op, filename, full, file, compressionMethod) ==
  /\ fs' = Store(fs, full, file)
  /\ last' = [Failed(1) EXCEPT !.op = op, !.path = filename, !.file = full,
                               !.method = compressionMethod]
  /\ hist' = IF hist.file = full THEN NoWrite ELSE hist
  /\ UNCHANGED <<dispVars, extension, bitmapExtension>>

\* return(1) of a write call.
Written(op, filename, full, file, data, width, height, compressionMethod) ==
  /\ fs' = Store(fs, full, file)
  /\ last' = [NoCall EXCEPT !.op = op, !.path = filename, !.ret = 1, !.file = full,
                            !.method = compressionMethod]
  /\ hist' = [NoWrite EXCEPT !.op = op, !.path = filename, !.file = full,
                             !.ret = 1, !.state = "intact", !.width = width,
                             !.height = height, !.data = data,
                             !.method = compressionMethod]
  /\ UNCHANGED <<dispVars, extension, bitmapExtension>>

\* WriteImage(filename, pixels, width, height, compressionMethod, error); pixels
\* holds width*height bytes.  The TIFF and JPEG branches are modelled for the
\* images libtiff and libjpeg accept, width >= 1 and height >= 1.  In the .pgm
\* branch fwrite of a zero-size object returns 0; the header is then on disk or
\* still in the stdio buffer (flushed).
WriteImage(filename, pixels, width, height, compressionMethod, flushed) ==
  IF Len(filename) < 5 THEN WriteRefused("WriteImage", filename, compressionMethod)
  ELSE IF \/ SuffixCaseEq(filename, ".tif")
          \/ Len(filename) > 5 /\ SuffixCaseEq(filename, ".tiff")
  THEN /\ width >= 1 /\ height >= 1
       /\ IF compressionMethod \in {"UncompressedImage", "HDiffDeflateImage"}
          THEN Written("WriteImage", filename, filename,
                       TiffFile(TiffTags(width, height, compressionMethod), pixels),
                       pixels, width, height, compressionMethod)
          ELSE WriteBroken("WriteImage", filename, filename, RawFile(<<>>),
                           compressionMethod)
  ELSE IF SuffixCaseEq(filename, ".pgm")
  THEN IF width * height = 0
       THEN WriteBroken("WriteImage", filename, filename,
                        RawFile(IF flushed THEN PgmHeader(width, height) ELSE <<>>),
                        compressionMethod)
       ELSE Written("WriteImage", filename, filename,
                    RawFile(PgmHeader(width, height) \o pixels),
                    pixels, width, height, compressionMethod)
  ELSE IF SuffixCaseEq(filename, ".jpg")
  THEN IF JpegQuality(compressionMethod) = 0
       THEN WriteRefused("WriteImage", filename, compressionMethod)
       ELSE /\ width >= 1 /\ height >= 1
            /\ Written("WriteImage", filename, filename,
                       WriteJpgImage(pixels, width, height, JpegQuality(compressionMethod)),
                       pixels, width, height, compressionMethod)
  ELSE WriteRefused("WriteImage", filename, compressionMethod)

-----------------------------------------------------------------------------
(* Bitmaps.                                                                *)

N_BITMAP_EXTENSIONS == 2

bitmapExtensions == <<".pbm", ".pbm.gz">>

\* ibpl = (iw + 7) >> 3
Ibpl(width) == (width + 7) \div 8

\* ReadGZHeader: the code of ReadHeader over gzgetc.
ReadGZHeader(b) == HeaderType(b, LeadingComments(b, Getc(b, 1), 2))

\* !ReadHeader(...) || tc != '4'
PbmSize(h) ==
  IF ~h.ok \/ h.tc # Ord["4"] THEN Failed(1) ELSE Loaded(h.w, h.h, <<>>)

ReadPbmBitmapSize(f, filename) ==
  IF ~Exists(f, filename) THEN Failed(0) ELSE PbmSize(ReadHeader(StreamOf(f, filename)))

\* gzopen of a missing file yields NULL, on which gzgetc returns -1.
ReadPbmgzBitmapSize(f, filename) ==
  IF ~Exists(f, filename) THEN Failed(0)
  ELSE PbmSize(ReadGZHeader(GzStream(StreamOf(f, filename))))

\* fread(*buffer, 1, ih*ibpl, f) != ih * ibpl, with no check at all.
PbmPixelsUnchecked(h, body) == Loaded(h.w, h.h, body)

\* fread(*buffer, 1, ih*ibpl, f) != ih * ibpl
PbmPixels(h, body) ==
  IF Len(body) # h.h * Ibpl(h.w) THEN Failed(0) ELSE Loaded(h.w, h.h, body)

PbmImage(b, h) ==
  IF ~h.ok \/ h.tc # Ord["4"] THEN Failed(1)
  ELSE PbmPixels(h, Fread(b, h.p, h.h * Ibpl(h.w)))

ReadPbmBitmap(f, filename) ==
  IF ~Exists(f, filename) THEN Failed(0)
  ELSE PbmImage(StreamOf(f, filename), ReadHeader(StreamOf(f, filename)))

PbmgzImage(b) == PbmImage(b, ReadGZHeader(b))

ReadPbmgzBitmap(f, filename) ==
  IF ~Exists(f, filename) THEN Failed(0)
  ELSE PbmgzImage(GzStream(StreamOf(f, filename)))

\* case 0 of ReadBitmapSize has no break: after ReadPbmBitmapSize succeeded the
\* same file goes through ReadPbmgzBitmapSize as well.
PbmThenPbmgzSize(f, fn, r) == IF r.ret # 1 THEN r ELSE ReadPbmgzBitmapSize(f, fn)

\* The switch with ReadPbmBitmapSize in both cases.
BitmapSizeReaderPbmOnly(f, k, fn) == ReadPbmBitmapSize(f, fn)

\* switch (k) of ReadBitmapSize.
BitmapSizeReader(f, k, fn) ==
  IF k = 0 THEN PbmThenPbmgzSize(f, fn, ReadPbmBitmapSize(f, fn))
  ELSE ReadPbmgzBitmapSize(f, fn)

\* switch (k) of ReadBitmap.
BitmapReader(f, k, fn) ==
  IF k = 0 THEN ReadPbmBitmap(f, fn) ELSE ReadPbmgzBitmap(f, fn)

\* The probe loop of ReadBitmapSize runs i up to N_EXTENSIONS with k taken modulo
\* N_BITMAP_EXTENSIONS; a file it finds, it finds at i < N_BITMAP_EXTENSIONS.
ProbedBitmapSize(f, ext, filename, pr) ==
  IF ~pr.found THEN [Failed(0) EXCEPT !.ext0 = ext, !.probes = pr.probes]
  ELSE [BitmapSizeReader(f, pr.k, filename \o bitmapExtensions[pr.k + 1]) EXCEPT
          !.ext0 = ext, !.probes = pr.probes,
          !.file = filename \o bitmapExtensions[pr.k + 1]]

BitmapSizeCall(f, ext, filename) ==
  IF Len(filename) = 0 THEN [Failed(0) EXCEPT !.ext0 = ext]
  ELSE IF Len(filename) > 4 /\ SuffixCaseEq(filename, ".pbm")
  THEN [ReadPbmBitmapSize(f, filename) EXCEPT !.ext0 = ext, !.file = filename]
  ELSE IF Len(filename) > 7 /\ SuffixCaseEq(filename, ".pbm.gz")
  THEN [ReadPbmgzBitmapSize(f, filename) EXCEPT !.ext0 = ext, !.file = filename]
  ELSE ProbedBitmapSize(f, ext, filename,
                        Probe(f, filename, bitmapExtensions, ext, 0, N_EXTENSIONS))

\* gzf = gzopen(filename, "rb") is handed to ReadGZHeader untested.  For a file
\* that cannot be opened gzf is NULL and gzgetc(NULL) is undefined: the function
\* gzgetc returns -1 (the outcome the readers above compute), the macro gzgetc
\* of zlib.h reads gzf->have.  Only a path with the extension .pbm.gz reaches
\* gzopen without a stat that found the file.
GzNullFault(f, ext, filename) ==
  IF Len(filename) > 7 /\ SuffixCaseEq(filename, ".pbm.gz") /\ ~Exists(f, filename)
  THEN {[Faulted EXCEPT !.ext0 = ext, !.file = filename]}
  ELSE {}

BitmapSizeDone(filename, r) ==
  /\ last' = [r EXCEPT !.op = "ReadBitmapSize", !.path = filename]
  /\ bitmapExtension' = Restarted(r, CacheAfter(r, bitmapExtension))
  /\ extension' = Restarted(r, extension)
  /\ UNCHANGED <<dispVars, fs, hist>>

\* ReadBitmapSize(filename, &width, &height, error)
ReadBitmapSize(filename) ==
  \E r \in {BitmapSizeCall(fs, bitmapExtension, filename)}
              \cup GzNullFault(fs, bitmapExtension, filename) :
    BitmapSizeDone(filename, r)

ProbedBitmap(f, ext, filename, pr) ==
  IF ~pr.found THEN [Failed(0) EXCEPT !.ext0 = ext, !.probes = pr.probes]
  ELSE [BitmapReader(f, pr.k, filename \o bitmapExtensions[pr.k + 1]) EXCEPT
          !.ext0 = ext, !.probes = pr.probes,
          !.file = filename \o bitmapExtensions[pr.k + 1]]

\* ReadBitmap up to the point where buffer, iw and ih are set.
BitmapCall(f, ext, filename) ==
  IF Len(filename) = 0 THEN [Failed(0) EXCEPT !.ext0 = ext]
  ELSE IF Len(filename) > 4 /\ SuffixCaseEq(filename, ".pbm")
  THEN [ReadPbmBitmap(f, filename) EXCEPT !.ext0 = ext, !.file = filename]
  ELSE IF Len(filename) > 7 /\ SuffixCaseEq(filename, ".pbm.gz")
  THEN [ReadPbmgzBitmap(f, filename) EXCEPT !.ext0 = ext, !.file = filename]
  ELSE ProbedBitmap(f, ext, filename,
                    Probe(f, filename, bitmapExtensions, ext, 0, N_BITMAP_EXTENSIONS))

\* (buffer[y*ibpl + (x >> 3)] & (0x80 >> (x & 7))) != 0, as 0 or 1.
BitAt(buffer, ibpl, y, x) ==
  (buffer[y * ibpl + (x \div 8) + 1] \div (2 ^ (7 - (x % 8)))) % 2

\* The bit that column x contributes to the region row.
RegionBit(buffer, iw, ibpl, y, x, xmax) ==
  IF x <= xmax /\ x < iw THEN BitAt(buffer, ibpl, y, x) ELSE 0

\* Byte j (0-based) of a region row assembled bit by bit.
RegionByte(buffer, iw, ibpl, y, x0, xmax) ==
  128 * RegionBit(buffer, iw, ibpl, y, x0, xmax)
  + 64 * RegionBit(buffer, iw, ibpl, y, x0 + 1, xmax)
  + 32 * RegionBit(buffer, iw, ibpl, y, x0 + 2, xmax)
  + 16 * RegionBit(buffer, iw, ibpl, y, x0 + 3, xmax)
  + 8 * RegionBit(buffer, iw, ibpl, y, x0 + 4, xmax)
  + 4 * RegionBit(buffer, iw, ibpl, y, x0 + 5, xmax)
  + 2 * RegionBit(buffer, iw, ibpl, y, x0 + 6, xmax)
  + RegionBit(buffer, iw, ibpl, y, x0 + 7, xmax)

\* One row of the requested region of ReadBitmap.
BitmapRegionRow(buffer, iw, ih, ibpl, y, xmin, xmax, rbpl) ==
  IF y >= ih THEN Zeros(rbpl)
  ELSE IF xmax < iw /\ xmin % 8 = 0
  THEN SubSeq(buffer, y * ibpl + (xmin \div 8) + 1, y * ibpl + (xmin \div 8) + rbpl)
  ELSE [j \in 1..rbpl |-> RegionByte(buffer, iw, ibpl, y, xmin + 8 * (j - 1), xmax)]

\* for (y = ymin; y < ymax; ++y): the loop stops one row short, and the last
\* row of the malloc'ed region keeps whatever the allocator left there (junk).
RECURSIVE BitmapRegionRows(_, _, _, _, _, _, _, _, _, _)
BitmapRegionRows(buffer, iw, ih, ibpl, y, ymax, xmin, xmax, rbpl, junk) ==
  IF y >= ymax THEN [j \in 1..rbpl |-> junk]
  ELSE BitmapRegionRow(buffer, iw, ih, ibpl, y, xmin, xmax, rbpl)
         \o BitmapRegionRows(buffer, iw, ih, ibpl, y + 1, ymax, xmin, xmax, rbpl, junk)

BitmapRegionOf(r, xmin, xmax, ymin, ymax, junk) ==
  [r EXCEPT !.width = xmax - xmin + 1, !.height = ymax - ymin + 1,
            !.data = BitmapRegionRows(r.data, r.width, r.height, Ibpl(r.width),
                                      ymin, ymax, xmin, xmax,
                                      Ibpl(xmax - xmin + 1), junk)]

\* ReadBitmap from the point where buffer, iw and ih are set.
BitmapRegion(r, minX, maxX, minY, maxY, junk) ==
  IF r.ret # 1 THEN [r EXCEPT !.width = 0 - 1, !.height = 0 - 1, !.data = <<>>]
  ELSE IF /\ minX <= 0 /\ (maxX < 0 \/ maxX = r.width - 1)
          /\ minY <= 0 /\ (maxY < 0 \/ maxY = r.height - 1)
  THEN r
  ELSE BitmapRegionOf(r, IF minX < 0 THEN 0 ELSE minX,
                         IF maxX < 0 THEN r.width - 1 ELSE maxX,
                         IF minY < 0 THEN 0 ELSE minY,
                         IF maxY < 0 THEN r.height - 1 ELSE maxY, junk)

BitmapDone(filename, region, r) ==
  /\ last' = [r EXCEPT !.op = "ReadBitmap", !.path = filename, !.region = region]
  /\ bitmapExtension' = Restarted(r, CacheAfter(r, bitmapExtension))
  /\ extension' = Restarted(r, extension)
  /\ UNCHANGED <<dispVars, fs, hist>>

\* ReadBitmap(filename, &bitmap, &width, &height, minX, maxX, minY, maxY, error),
\* for a region whose maxX and maxY are negative or not below minX and minY.
ReadBitmap(filename, minX, maxX, minY, maxY, junk) ==
  /\ maxX < 0 \/ (maxX >= minX /\ maxX >= 0)
  /\ maxY < 0 \/ (maxY >= minY /\ maxY >= 0)
  /\ \E r \in {BitmapRegion(BitmapCall(fs, bitmapExtension, filename),
                             minX, maxX, minY, maxY, junk)}
                \cup GzNullFault(fs, bitmapExtension, filename) :
       BitmapDone(filename, <<minX, maxX, minY, maxY>>, r)

\* strrchr(filename, ch) as a 1-based index, 0 for NULL.
RECURSIVE Strrchr(_, _, _)
Strrchr(s, ch, i) ==
  IF i = 0 THEN 0
  ELSE IF SubSeq(s, i, i) = ch THEN i
  ELSE Strrchr(s, ch, i - 1)

\* fullFilename: ".pbm" is appended to a name with no dot after its last slash.
FullFilenameOf(filename, dotPos, slashPos) ==
  IF dotPos = 0 \/ (slashPos # 0 /\ dotPos < slashPos) THEN filename \o ".pbm"
  ELSE filename

FullFilename(filename) ==
  FullFilenameOf(filename, Strrchr(filename, ".", Len(filename)),
                 Strrchr(filename, "/", Len(filename)))

\* fprintf(f, "P4\n%d %d\n", height, width): the dimensions in the wrong order.
PbmHeaderSwapped(width, height) ==
  Str("P4") \o <<NL>> \o FmtInt(height) \o Str(" ") \o FmtInt(width) \o <<NL>>

\* fprintf(f, "P4\n%d %d\n", width, height)
PbmHeader(width, height) ==
  Str("P4") \o <<NL>> \o FmtInt(width) \o Str(" ") \o FmtInt(height) \o <<NL>>

BitmapWrite(filename, full, bitmap, width, height, compressionMethod, flushed) ==
  IF SuffixCaseEq(full, ".pbm")
  THEN IF Ibpl(width) * height = 0
       THEN WriteBroken("WriteBitmap", filename, full,
                        RawFile(IF flushed THEN PbmHeader(width, height) ELSE <<>>),
                        compressionMethod)
       ELSE Written("WriteBitmap", filename, full,
                    RawFile(PbmHeader(width, height) \o bitmap),
                    bitmap, width, height, compressionMethod)
  ELSE IF Len(full) > 7 /\ SuffixCaseEq(full, ".pbm.gz")
  THEN Written("WriteBitmap", filename, full,
               RawFile(GzEncode(PbmHeader(width, height) \o bitmap)),
               bitmap, width, height, compressionMethod)
  ELSE WriteRefused("WriteBitmap", filename, compressionMethod)

\* WriteBitmap(filename, bitmap, width, height, compressionMethod, error), for a
\* name that is at least four characters long once ".pbm" has been appended;
\* bitmap holds ((width + 7) >> 3) * height bytes.
WriteBitmap(filename, bitmap, width, height, compressionMethod, flushed) ==
  IF Len(filename) < 1 THEN WriteRefused("WriteBitmap", filename, compressionMethod)
  ELSE /\ Len(FullFilename(filename)) >= 4
       /\ BitmapWrite(filename, FullFilename(filename), bitmap, width, height,
                      compressionMethod, flushed)

-----------------------------------------------------------------------------
(* The environment: other processes that share the files.                  *)

\* A reader may see the file of the most recent write before all of it has
\* reached the disk, or after a crash cut it short: its first n bytes.
Truncate(n) ==
  /\ hist.ret = 1 /\ hist.state = "intact"
  /\ Exists(fs, hist.file) /\ fs[hist.file].kind = "raw"
  /\ n >= 0 /\ n < Len(fs[hist.file].bytes)
  /\ fs' = Store(fs, hist.file, RawFile(SubSeq(fs[hist.file].bytes, 1, n)))
  /\ hist' = [hist EXCEPT !.state = "truncated"]
  /\ last' = [NoCall EXCEPT !.op = "Truncate", !.path = hist.file]
  /\ UNCHANGED <<dispVars, extension, bitmapExtension>>

\* Another process appends a byte to the file of the most recent write.
AppendByte(c) ==
  /\ hist.ret = 1 /\ hist.state = "intact"
  /\ Exists(fs, hist.file) /\ fs[hist.file].kind = "raw"
  /\ fs' = Store(fs, hist.file, RawFile(Append(fs[hist.file].bytes, c)))
  /\ hist' = [hist EXCEPT !.state = "extended"]
  /\ last' = [NoCall EXCEPT !.op = "AppendByte", !.path = hist.file]
  /\ UNCHANGED <<dispVars, extension, bitmapExtension>>

\* The bytes appended: a NUL and a newline.
TrailingBytes == {0, NL}

\* Another program puts a file at a path nothing is at yet.
PutFile(fn, file) ==
  /\ ~Exists(fs, fn)
  /\ fs' = Store(fs, fn, file)
  /\ last' = [NoCall EXCEPT !.op = "PutFile", !.path = fn]
  /\ UNCHANGED <<dispVars, extension, bitmapExtension, hist>>

\* unlink(fn); a write whose file is gone is no longer the most recent write
\* of a file.
Unlink(fn) ==
  /\ Exists(fs, fn)
  /\ fs' = [q \in DOMAIN fs \ {fn} |-> fs[q]]
  /\ last' = [NoCall EXCEPT !.op = "Unlink", !.path = fn]
  /\ hist' = IF hist.file = fn THEN NoWrite ELSE hist
  /\ UNCHANGED <<dispVars, extension, bitmapExtension>>

\* A netpbm file as other programs write it: magic P<tc>, the dimensions, the
\* maxval line unless it is a P4, and the body.
PnmFile(tc, width, height, body) ==
  RawFile(Str("P") \o <<tc>> \o <<NL>> \o FmtInt(width) \o Str(" ") \o
          FmtInt(height) \o <<NL>> \o
          (IF tc = Ord["4"] THEN <<>> ELSE Str("255") \o <<NL>>) \o body)

LE16(n) == <<n % 256, (n \div 256) % 256>>
LE32(n) == <<n % 256, (n \div 256) % 256, (n \div 65536) % 256, (n \div 16777216) % 256>>

\* The padding that ends each row of a BMP: rows start on 4-byte boundaries.
BmpPad(width) == (4 - (width % 4)) % 4

\* The pixel array of a BMP: the rows in file order, each padded.
RECURSIVE BmpBody(_, _)
BmpBody(width, rows) ==
  IF rows = <<>> THEN <<>>
  ELSE Head(rows) \o Zeros(BmpPad(width)) \o BmpBody(width, Tail(rows))

\* An 8-bit BMP as other programs write it: BITMAPFILEHEADER, BITMAPINFOHEADER,
\* the colour table, then the rows (rows[1] is the bottom row of the picture).
BmpFile(width, height, palette, rows) ==
  RawFile(LE16(BMP_FILE_TYPE)
          \o LE32(BMP_FILE_HEADER_SIZE + BMP_INFO_HEADER_SIZE + Len(palette)
                    + height * (width + BmpPad(width)))
          \o LE32(0)
          \o LE32(BMP_FILE_HEADER_SIZE + BMP_INFO_HEADER_SIZE + Len(palette))
          \o LE32(BMP_INFO_HEADER_SIZE) \o LE32(width) \o LE32(height)
          \o LE16(1) \o LE16(8) \o LE32(0)
          \o LE32(height * (width + BmpPad(width)))
          \o LE32(0) \o LE32(0) \o LE32(Len(palette) \div 4) \o LE32(0)
          \o palette \o BmpBody(width, rows))

-----------------------------------------------------------------------------
(* Initial state: no files, both caches at their static initialisers.      *)

-----------------------------------------------------------------------------
(* The dispatcher (prun / libpar): a master that hands work units to       *)
(* workers over point-to-point messages, requeues the units that fail and  *)
(* sends EXIT when the work is done.                                       *)

\* The number of work units in the task list, of workers, and the number of
\* times a failed unit is requeued.
NumUnits == 3
NumWorkers == 2
maxRetries == 1

Units == 1..NumUnits
Workers == 1..NumWorkers

\* READY, DONE(id, status), LOG(id, bytes) from a worker; ASSIGN(id) and EXIT
\* from the master.
Msg(type, id, status) == [type |-> type, id |-> id, status |-> status]

\* The master after reading the task list: every unit queued, in order.
MasterStart ==
  [queue |-> [i \in 1..NumUnits |-> i],
   state |-> [u \in Units |-> "queued"],
   retries |-> [u \in Units |-> 0],
   holder |-> [u \in Units |-> 0],
   parked |-> {},
   exitSent |-> {},
   log |-> [u \in Units |-> 0]]

WorkerStart == [w \in Workers |-> [pc |-> "idle", unit |-> 0, logged |-> FALSE]]

NetStart ==
  [toMaster |-> [w \in Workers |-> <<>>], toWorker |-> [w \in Workers |-> <<>>]]

\* budget: the number of times each unit still fails when it is run.
EnvStart(budget) ==
  [budget |-> budget, fails0 |-> budget,
   assigned |-> [u \in Units |-> 0], failures |-> [u \in Units |-> 0]]

\* Every unit is done or permanently failed.
Terminal(m) == \A u \in Units : m.state[u] \in {"ok", "failed"}

\* The queue is empty, whatever is still out.
QueueEmpty(m) == m.queue = <<>>

\* The queue has drained: nothing is queued and nothing is still out.
Drained(m) == m.queue = <<>> /\ Terminal(m)

\* A failed unit is requeued one time more than maxRetries allows.
CanRetryOnceMore(m, u) == m.retries[u] <= maxRetries

\* A failed unit is requeued up to maxRetries times.
CanRetry(m, u) == m.retries[u] < maxRetries

\* The master assigns unit u, the head of its queue, to worker w.
AssignTo(s, w, u) ==
  [master |-> [s.master EXCEPT !.queue = Tail(@), !.state[u] = "assigned",
                               !.holder[u] = w, !.parked = @ \ {w}],
   net |-> [s.net EXCEPT !.toWorker[w] = Append(@, Msg("ASSIGN", u, ""))],
   env |-> [s.env EXCEPT !.assigned[u] = @ + 1]]

\* The master sends EXIT to the workers ws.
ExitTo(s, ws) ==
  [master |-> [s.master EXCEPT !.exitSent = @ \cup ws, !.parked = @ \ ws],
   net |-> [s.net EXCEPT
              !.toWorker = [w \in Workers |->
                              IF w \in ws THEN Append(@[w], Msg("EXIT", 0, ""))
                              ELSE @[w]]],
   env |-> s.env]

\* The worker of least rank among ws.
Least(ws) == CHOOSE w \in ws : \A v \in ws : w <= v

\* After a DONE: a requeued unit goes to a worker that waits for work, and
\* the waiting workers are sent EXIT once the queue has drained.
Dispatch(s) ==
  IF s.master.queue # <<>> /\ s.master.parked # {}
  THEN AssignTo(s, Least(s.master.parked), Head(s.master.queue))
  ELSE IF Drained(s.master) THEN ExitTo(s, s.master.parked)
  ELSE s

\* The master's answer to READY from worker w: the next queued unit, EXIT when
\* the queue has drained, and otherwise nothing yet.
OnReady(s, w) ==
  IF s.master.queue # <<>> THEN AssignTo(s, w, Head(s.master.queue))
  ELSE IF Drained(s.master) THEN ExitTo(s, {w})
  ELSE [s EXCEPT !.master.parked = @ \cup {w}]

\* The master's record of unit u after DONE(u, status).
OnDone(s, u, status) ==
  IF status = "OK"
  THEN [s EXCEPT !.master.state[u] = "ok", !.master.holder[u] = 0]
  ELSE IF CanRetry(s.master, u)
  THEN [s EXCEPT !.master.retries[u] = @ + 1, !.master.state[u] = "queued",
                 !.master.holder[u] = 0, !.master.queue = Append(@, u),
                 !.env.failures[u] = @ + 1]
  ELSE [s EXCEPT !.master.state[u] = "failed", !.master.holder[u] = 0,
                 !.env.failures[u] = @ + 1]

\* The message worker w sent first has been received.
Received(s, w) == [s EXCEPT !.net.toMaster[w] = Tail(@)]

Sys == [master |-> master, net |-> net, env |-> env]

MasterStep(s) ==
  /\ master' = s.master
  /\ net' = s.net
  /\ env' = s.env
  /\ UNCHANGED <<ioVars, worker>>

\* The master receives READY from worker w.
MasterReady(w) ==
  /\ net.toMaster[w] # <<>>
  /\ Head(net.toMaster[w]).type = "READY"
  /\ MasterStep(OnReady(Received(Sys, w), w))

\* The master receives DONE(id, status) from worker w.
MasterDone(w) ==
  /\ net.toMaster[w] # <<>>
  /\ Head(net.toMaster[w]).type = "DONE"
  /\ MasterStep(Dispatch(OnDone(Received(Sys, w), Head(net.toMaster[w]).id,
                                Head(net.toMaster[w]).status)))

\* The master receives LOG(id, bytes) from worker w and appends to the log of
\* the unit.
MasterLog(w) ==
  /\ net.toMaster[w] # <<>>
  /\ Head(net.toMaster[w]).type = "LOG"
  /\ master' = [master EXCEPT !.log[Head(net.toMaster[w]).id] = @ + 1]
  /\ net' = [net EXCEPT !.toMaster[w] = Tail(@)]
  /\ UNCHANGED <<ioVars, worker, env>>

\* Worker w has no unit and asks for one.
WorkerReady(w) ==
  /\ worker[w].pc = "idle"
  /\ worker' = [worker EXCEPT ![w].pc = "waiting"]
  /\ net' = [net EXCEPT !.toMaster[w] = Append(@, Msg("READY", 0, ""))]
  /\ UNCHANGED <<ioVars, master, env>>

\* Worker w, blocked on receive, gets a unit to run or EXIT.
WorkerReceive(w) ==
  /\ worker[w].pc = "waiting"
  /\ net.toWorker[w] # <<>>
  /\ worker' = IF Head(net.toWorker[w]).type = "EXIT"
               THEN [worker EXCEPT ![w].pc = "exited"]
               ELSE [worker EXCEPT ![w].pc = "running",
                                   ![w].unit = Head(net.toWorker[w]).id]
  /\ net' = [net EXCEPT !.toWorker[w] = Tail(@)]
  /\ UNCHANGED <<ioVars, master, env>>

\* Worker w forwards a chunk of its unit's output.
WorkerLog(w) ==
  /\ worker[w].pc = "running"
  /\ ~worker[w].logged
  /\ worker' = [worker EXCEPT ![w].logged = TRUE]
  /\ net' = [net EXCEPT !.toMaster[w] = Append(@, Msg("LOG", worker[w].unit, ""))]
  /\ UNCHANGED <<ioVars, master, env>>

\* The unit worker w runs ends (or is killed, or times out) and the worker
\* reports it.
WorkerDone(w) ==
  /\ worker[w].pc = "running"
  /\ worker' = [worker EXCEPT ![w] = [pc |-> "idle", unit |-> 0, logged |-> FALSE]]
  /\ net' = [net EXCEPT
               !.toMaster[w] =
                 Append(@, Msg("DONE", worker[w].unit,
                               IF env.budget[worker[w].unit] > 0 THEN "FAIL" ELSE "OK"))]
  /\ env' = [env EXCEPT
               !.budget[worker[w].unit] = IF @ > 0 THEN @ - 1 ELSE 0]
  /\ UNCHANGED <<ioVars, master>>

\* The dispatcher before it is started.
DispatchIdle ==
  /\ master = MasterStart
  /\ worker = WorkerStart
  /\ net = NetStart
  /\ env = EnvStart([u \in Units |-> 0])

NoFiles == [fn \in {} |-> RawFile(<<>>)]

Init ==
  /\ fs = NoFiles
  /\ extension = 0
  /\ bitmapExtension = 0
  /\ last = NoCall
  /\ hist = NoWrite
  /\ DispatchIdle

-----------------------------------------------------------------------------
(* Maps written, damaged and read back.                                    *)

\* The largest map width and height written.
MaxMapDim == 2

\* A map of n elements: its bytes, starting at seed and stepping by 7, so that
\* the body can start with a newline (seed 10) or with a digit (seed 48).
MapBytes(seed, n) == [i \in 1..(n * SizeofMapElement) |-> (seed + 7 * (i - 1)) % 256]

MapSeeds == {NL, Ord["0"]}

\* level, xMin and yMin: one digit and several, negative and not.
MapInts == {[level |-> 0, xMin |-> 0 - 3, yMin |-> 7],
            [level |-> 12, xMin |-> 10, yMin |-> 0]}

\* imageName and referenceName: plain names, a name with a space, an empty name.
MapNames == {<<Str("im"), Str("rf")>>, <<Str("rf"), Str("im")>>,
             <<Str("a b"), Str("rf")>>, <<Str("im"), Str("a b")>>,
             <<<<>>, Str("rf")>>, <<Str("im"), <<>>>>}

MapPaths == {"m.map"}

\* WriteMap to a path that does not exist yet.
WriteMapOp ==
  \E filename \in MapPaths, seed \in MapSeeds, ints \in MapInts,
     width \in 0..MaxMapDim, height \in 0..MaxMapDim, names \in MapNames,
     flushed \in BOOLEAN :
    /\ ~Exists(fs, filename)
    /\ width * height = 0 \/ flushed
    /\ WriteMap(filename, MapBytes(seed, width * height), ints.level, width, height,
                ints.xMin, ints.yMin, names[1], names[2], "UncompressedMap", flushed)

\* WriteMap over an existing file, and WriteMap with a method it does not support.
RewriteMapOp ==
  \E filename \in MapPaths, ints \in MapInts,
     compressionMethod \in {"UncompressedMap", "OtherMap"} :
    /\ Exists(fs, filename) \/ compressionMethod = "OtherMap"
    /\ WriteMap(filename, MapBytes(NL, 1), ints.level, 1, 1, ints.xMin, ints.yMin,
                Str("im"), Str("rf"), compressionMethod, TRUE)

ReadMapOp == \E filename \in MapPaths : ReadMap(filename)

TruncateOp ==
  /\ Exists(fs, hist.file)
  /\ \E n \in 0..(Len(fs[hist.file].bytes) - 1) : Truncate(n)

AppendByteOp == \E c \in TrailingBytes : AppendByte(c)

NextMap == WriteMapOp \/ RewriteMapOp \/ ReadMapOp \/ TruncateOp \/ AppendByteOp

SpecMap == Init /\ [][NextMap]_vars

\* A name fscanf's %s reads back whole: not empty, no white space.
WellFormedName(s) == Len(s) > 0 /\ \A i \in 1..Len(s) : ~IsSpace(s[i])

\* The last call was a ReadMap of the file the last WriteMap wrote with success,
\* and nothing touched the file in between.
MapReadBack ==
  /\ last.op = "ReadMap"
  /\ hist.op = "WriteMap" /\ hist.ret = 1 /\ hist.state = "intact"
  /\ last.path = hist.path

\* ReadMap succeeded and returned what WriteMap was given.
MapRoundTrip ==
  /\ last.ret = 1
  /\ last.level = hist.level
  /\ last.width = hist.width /\ last.height = hist.height
  /\ last.xMin = hist.xMin /\ last.yMin = hist.yMin
  /\ last.imageName = hist.imageName /\ last.referenceName = hist.referenceName
  /\ last.data = hist.data

\* C1 as stated: every map WriteMap reports written, whatever its imageName and
\* referenceName, is read back by ReadMap with success and with the same level,
\* width, height, xMin, yMin, names and vertex bytes.
C1_AnyNamesRoundTrip == MapReadBack => MapRoundTrip

\* C1, amended: every map WriteMap reports written whose imageName and
\* referenceName are non-empty and free of white space is read back by ReadMap
\* with success and with the same level, width, height, xMin, yMin, names and
\* vertex bytes.
C1_MapRoundTrip ==
  MapReadBack /\ WellFormedName(hist.imageName) /\ WellFormedName(hist.referenceName)
    => MapRoundTrip

\* A map of several elements with a negative xMin was written and read back.
C1_Witness ==
  /\ MapReadBack /\ last.ret = 1
  /\ WellFormedName(hist.imageName) /\ WellFormedName(hist.referenceName)
  /\ hist.width * hist.height >= 2 /\ hist.xMin < 0
  /\ Len(last.data) = hist.width * hist.height * SizeofMapElement

\* The position of the k-th newline of b at or after p, or 0.
RECURSIVE LineEnd(_, _, _)
LineEnd(b, p, k) ==
  IF p > Len(b) THEN 0
  ELSE IF b[p] # NL THEN LineEnd(b, p + 1, k)
  ELSE IF k = 1 THEN p
  ELSE LineEnd(b, p + 1, k - 1)

\* The number of bytes that follow the five header lines of the map file fn.
MapBodyLength(fn) == Len(fs[fn].bytes) - LineEnd(fs[fn].bytes, 1, 5)

\* C7 as stated: when ReadMap succeeds, the bytes after the header are exactly
\* mw*mh*sizeof(MapElement): files with fewer and files with more are rejected.
C7_ExactBodyLength ==
  last.op = "ReadMap" /\ last.ret = 1
    => MapBodyLength(last.path) = last.width * last.height * SizeofMapElement

\* C7, amended: when ReadMap succeeds, at least mw*mh*sizeof(MapElement) bytes
\* follow the header: files with fewer body bytes are rejected (bytes after the
\* last element are not looked at).
C7_BodyLengthAtLeast ==
  last.op = "ReadMap" /\ last.ret = 1
    => MapBodyLength(last.path) >= last.width * last.height * SizeofMapElement

\* ReadMap succeeded on a file with a byte after its last element.
C7_Witness ==
  /\ last.op = "ReadMap" /\ last.ret = 1 /\ hist.state = "extended"
  /\ last.width * last.height >= 1
  /\ MapBodyLength(last.path) > last.width * last.height * SizeofMapElement

\* The lines, each ended by a newline.
RECURSIVE Lines(_)
Lines(ls) == IF ls = <<>> THEN <<>> ELSE Head(ls) \o <<NL>> \o Lines(Tail(ls))

\* The five header lines of the map most recently written.
WrittenMapLines ==
  <<Str("M1"),
    FmtInt(hist.level),
    FmtInt(hist.width) \o Str(" ") \o FmtInt(hist.height),
    FmtInt(hist.xMin) \o Str(" ") \o FmtInt(hist.yMin),
    hist.imageName \o Str(" ") \o hist.referenceName>>

\* C14: after a successful WriteMap the file holds the lines "M1", level,
\* "mw mh", "xMin yMin" and "imageName referenceName", each ended by a newline,
\* and then the mw*mh*sizeof(MapElement) bytes of the map, and nothing else.
C14_MapFileLayout ==
  last.op = "WriteMap" /\ last.ret = 1 =>
    /\ hist.file = last.path /\ Exists(fs, last.path)
    /\ Len(hist.data) = hist.width * hist.height * SizeofMapElement
    /\ fs[last.path].bytes = Lines(WrittenMapLines) \o hist.data

\* A map of several elements with a negative xMin has just been written.
C14_Witness ==
  /\ last.op = "WriteMap" /\ last.ret = 1
  /\ hist.width * hist.height >= 2 /\ hist.xMin < 0
  /\ Len(fs[last.path].bytes) > hist.width * hist.height * SizeofMapElement

-----------------------------------------------------------------------------
(* SpecProbe: image files of several formats next to one basename, read by *)
(* basename and by full name.                                              *)

\* The regions asked for: the whole image (all bounds negative), its first
\* pixel, and a window that reaches past the right and bottom edges of the
\* smaller images.
Regions ==
  {<<0 - 1, 0 - 1, 0 - 1, 0 - 1>>, <<0, 0, 0, 0>>, <<1, 2, 0, 1>>, <<0 - 1, 0, 1, 0 - 1>>}

\* The files other programs leave next to the basename "i": 1x1 images whose one
\* pixel tells them apart, and a .tif file that is not a TIFF.
ProbeFiles ==
  {<<"i.tif", TiffFile(TiffTags(1, 1, "UncompressedImage"), <<1>>)>>,
   <<"i.tif", RawFile(Str("x"))>>,
   <<"i.pgm", PnmFile(Ord["5"], 1, 1, <<4>>)>>,
   <<"i.ppm", PnmFile(Ord["6"], 1, 1, <<6, 6, 6>>)>>,
   <<"i.bmp", BmpFile(1, 1, <<>>, <<<<12>>>>)>>,
   <<"i.ppm.pgm", PnmFile(Ord["5"], 2, 1, <<9, 9>>)>>}

ProbePaths == {"i", "i.tif", "i.pgm", "i.ppm", "i.PPM", "i.bmp"}

PutProbeFile == \E pf \in ProbeFiles : PutFile(pf[1], pf[2])

UnlinkProbeFile == \E fn \in DOMAIN fs : Unlink(fn)

ProbeReadImageSize == \E filename \in ProbePaths : ReadImageSize(filename)

ProbeReadImage ==
  \E filename \in ProbePaths, rg \in {<<0 - 1, 0 - 1, 0 - 1, 0 - 1>>, <<0, 0, 0, 0>>} :
    ReadImage(filename, rg[1], rg[2], rg[3], rg[4])

NextProbe == PutProbeFile \/ UnlinkProbeFile \/ ProbeReadImageSize \/ ProbeReadImage

SpecProbe == Init /\ [][NextProbe]_vars

\* The extensions the image readers are chosen by.
ImageExtensions == {".tif", ".tiff", ".pgm", ".ppm", ".jpg", ".jpeg", ".bmp"}

\* The path ends in one of them, in any letter case.
RecognizedExtension(path) ==
  \E e \in ImageExtensions : Len(path) > Len(e) /\ SuffixCaseEq(path, e)

ImageLookup(call) == call.op \in {"ReadImage", "ReadImageSize"}

\* The probes run in cyclic order from `cache`.
CyclicFrom(cache, probes) ==
  \A n \in 1..Len(probes) : probes[n] = (cache + n - 1) % N_EXTENSIONS

\* The call probed from the cached index, passed over candidates that do not
\* exist, took the first that does, and on success left its index in the cache.
ProbeFollowsCache(cache, call, files, cacheAfter) ==
  /\ call.probes # <<>>
  /\ CyclicFrom(cache, call.probes)
  /\ \A n \in 1..(Len(call.probes) - 1) :
       ~Exists(files, call.path \o extensions[call.probes[n] + 1])
  /\ IF Exists(files, call.path \o extensions[call.probes[Len(call.probes)] + 1])
     THEN call.file = call.path \o extensions[call.probes[Len(call.probes)] + 1]
     ELSE Len(call.probes) = N_EXTENSIONS /\ call.ret = 0
  /\ call.ret = 1 => cacheAfter = call.probes[Len(call.probes)]

\* C2: every ReadImage and ReadImageSize call on a non-empty path with no
\* recognized image extension probes the 14 extensions in cyclic order starting
\* at the index the cache held when the call began (the cache both operations
\* share), uses the first candidate that exists, and on success leaves that
\* candidate's index in the cache.
C2_ProbeFromCache ==
  [][(ImageLookup(last') /\ Len(last'.path) > 0 /\ ~RecognizedExtension(last'.path))
       => ProbeFollowsCache(extension, last', fs, extension')]_vars

\* A lookup by basename that started at the cached index 12 (.bmp), wrapped
\* around, found the .pgm file and cached its index.
C2_Witness ==
  /\ last.op = "ReadImageSize" /\ last.path = "i" /\ last.ret = 1
  /\ last.ext0 = 12 /\ Len(last.probes) = 7 /\ last.file = "i.pgm"
  /\ extension = 4

\* C6: a ReadImage or ReadImageSize call on a path that ends in a recognized
\* image extension opens exactly that path and probes nothing.
C6_ExplicitDispatch ==
  (ImageLookup(last) /\ RecognizedExtension(last.path))
    => (last.probes = <<>> /\ last.file = last.path)

\* The lookup was by a path with no extension that imio.c knows.
ByBasename(call) ==
  ImageLookup(call) /\ Len(call.path) > 0 /\ ~RecognizedExtension(call.path)

\* The index of the n-th extension probed by a call that began with the cache
\* at ext0, and the candidate file it names.
ProbedIndex(call, n) == (call.ext0 + n) % N_EXTENSIONS
Candidate(call, n) == call.path \o extensions[ProbedIndex(call, n) + 1]

\* The probe positions whose candidate file exists.
Candidates(call) ==
  {n \in 0..(N_EXTENSIONS - 1) : Exists(fs, Candidate(call, n))}

\* The reader of the format of the n-th candidate accepts that file.
Readable(call, n) ==
  IF call.op = "ReadImageSize"
  THEN ImageSizeReader(fs, ProbedIndex(call, n), Candidate(call, n)).ret = 1
  ELSE ImageReader(fs, ProbedIndex(call, n), Candidate(call, n)).ret = 1

FirstCandidate(call) ==
  CHOOSE n \in Candidates(call) : \A m \in Candidates(call) : n <= m

FullRegion(call) == \A n \in 1..4 : call.region[n] < 0

\* The step is a successful full-region ReadImage that follows at once on a
\* successful ReadImageSize of the same path.
SizeThenImage ==
  /\ last.op = "ReadImageSize" /\ last.ret = 1
  /\ last'.op = "ReadImage" /\ FullRegion(last') /\ last'.ret = 1
  /\ last'.path = last.path
  /\ fs' = fs

SameSize == last'.width = last.width /\ last'.height = last.height

\* C23: when ReadImageSize succeeds and a full-region ReadImage of the same
\* path that follows at once, with no change of the files in between, succeeds
\* too, both report the same width and height.
C23_SizeThenImage == [][SizeThenImage => SameSize]_vars

\* The same for the paths that do not end in .ppm.
C23_SizeThenImageButPpm ==
  [][(SizeThenImage /\ ~SuffixCaseEq(last.path, ".ppm")) => SameSize]_vars

BitmapLookup(call) == call.op \in {"ReadBitmap", "ReadBitmapSize"}

\* The path ends in .pbm or .pbm.gz, in any letter case.
BitmapExtensionGiven(path) ==
  SuffixCaseEq(path, ".pbm") \/ SuffixCaseEq(path, ".pbm.gz")

CachesInRange ==
  extension \in 0..(N_EXTENSIONS - 1) /\ bitmapExtension \in 0..(N_BITMAP_EXTENSIONS - 1)

\* A step that changes a cached index is a successful lookup of that kind by
\* a path without extension.
CachesChangedByLookup ==
  /\ extension' # extension =>
       (ImageLookup(last') /\ last'.ret = 1 /\ ~RecognizedExtension(last'.path))
  /\ bitmapExtension' # bitmapExtension =>
       (BitmapLookup(last') /\ last'.ret = 1 /\ ~BitmapExtensionGiven(last'.path))

\* C19: the cached image extension index is always in 0..13 and the cached
\* bitmap extension index in 0..1; each changes only in a successful
\* extensionless lookup of its own kind, and not in a call with an explicit
\* extension, a failed lookup or a write.
C19_CacheDiscipline == []CachesInRange /\ [][CachesChangedByLookup]_vars

\* The same with ReadImage of a .ppm path counted as a lookup by basename,
\* which is how ReadImage treats it, and without the calls that end the
\* process (the next call runs with the statics of a new process).
C19_CacheDisciplineButPpm ==
  /\ []CachesInRange
  /\ [][\/ CachesChangedByLookup
         \/ (last'.op = "ReadImage" /\ last'.ret = 1 /\ SuffixCaseEq(last'.path, ".ppm"))
         \/ last'.ret < 0 - 1]_vars

-----------------------------------------------------------------------------
(* SpecImage: one image file at a time, written by WriteImage or put there *)
(* by another program, and read back.                                      *)

\* The largest width and height of the images written.
MaxImageDim == 2

\* The largest width of the BMP files.
MaxBmpWidth == 5

\* n pixel bytes, starting at seed and stepping by 7 modulo 256.
PixelBytes(seed, n) == [i \in 1..n |-> (seed + 7 * (i - 1)) % 256]

\* The first pixel is a digit, or large enough for the step to wrap.
ImageSeeds == {Ord["5"], 250}

\* The paths written, each with the compression methods tried on it.
ImageTargets ==
  {<<"w.pgm", "UncompressedImage">>,
   <<"w.tif", "UncompressedImage">>, <<"w.tif", "HDiffDeflateImage">>,
   <<"w.tif", "JpegQuality95">>,
   <<"w.jpg", "JpegQuality95">>, <<"w.jpg", "JpegQuality70">>,
   <<"w.jpg", "UncompressedImage">>,
   <<"w.png", "UncompressedImage">>, <<".pgm", "UncompressedImage">>}

\* n RGB triples, each a gray level (R = G = B).
GrayTriples(seed, n) == [i \in 1..(3 * n) |-> (seed + 7 * ((i - 1) \div 3)) % 256]

\* The rows of a BMP picture in file order, row r holding r, r + 1, ...
BmpPictureRows(width, height) ==
  [r \in 1..height |-> [x \in 1..width |-> 16 * r + x]]

\* Files of other programs: netpbm files of each magic number under each netpbm
\* extension, their body long enough for any of the three formats, and 8-bit
\* BMP files two rows high with a colour table of two entries.
ForeignFiles ==
  {<<fn, PnmFile(tc, 2, 1, GrayTriples(250, 2))>> :
     fn \in {"x.pgm", "x.ppm", "x.pbm"}, tc \in {Ord["4"], Ord["5"], Ord["6"]}}
  \cup {<<"x.bmp", BmpFile(width, 2, <<0, 0, 0, 0, 255, 255, 255, 0>>,
                           BmpPictureRows(width, 2))>> : width \in 1..MaxBmpWidth}

\* WriteImage while no other file is there.
WriteImageOp ==
  \E target \in ImageTargets, seed \in ImageSeeds, width \in 0..MaxImageDim,
     height \in 0..MaxImageDim, flushed \in BOOLEAN :
    /\ fs = NoFiles
    /\ width * height = 0 \/ flushed
    /\ WriteImage(target[1], PixelBytes(seed, width * height), width, height,
                  target[2], flushed)

PutForeignFile == \E pf \in ForeignFiles : fs = NoFiles /\ PutFile(pf[1], pf[2])

UnlinkImage == \E fn \in DOMAIN fs : Unlink(fn)

\* The paths read: the file that is there, by its name and by its basename.
ImageReadPaths == DOMAIN fs \cup {"x", "w"}

ReadImageSizeOp == \E filename \in ImageReadPaths : ReadImageSize(filename)

ReadImageOp ==
  \E filename \in ImageReadPaths, rg \in Regions :
    ReadImage(filename, rg[1], rg[2], rg[3], rg[4])

ReadBitmapSizeOp == \E filename \in {"x.pbm", "x"} : ReadBitmapSize(filename)

ReadBitmapOp ==
  \E filename \in {"x.pbm", "x"}, rg \in Regions, junk \in {0, 255} :
    ReadBitmap(filename, rg[1], rg[2], rg[3], rg[4], junk)

NextImage ==
  \/ WriteImageOp
  \/ PutForeignFile
  \/ UnlinkImage
  \/ ReadImageSizeOp
  \/ ReadImageOp
  \/ ReadBitmapSizeOp
  \/ ReadBitmapOp

SpecImage == Init /\ [][NextImage]_vars

\* The last call was a full-region ReadImage of the path the last WriteImage
\* wrote with success, and nothing touched the file in between.
ImageReadBack ==
  /\ last.op = "ReadImage" /\ FullRegion(last)
  /\ hist.op = "WriteImage" /\ hist.ret = 1 /\ hist.state = "intact"
  /\ last.path = hist.path

\* C3: a full-region ReadImage of the path a successful WriteImage wrote, for an
\* image of width >= 1 and height >= 1 and a .pgm path (or a .tif path with
\* UncompressedImage), returns success with the width, height and pixels that
\* WriteImage was given.
C3_ImageRoundTrip ==
  (/\ ImageReadBack
   /\ hist.width >= 1 /\ hist.height >= 1
   /\ \/ SuffixCaseEq(hist.path, ".pgm")
      \/ SuffixCaseEq(hist.path, ".tif") /\ hist.method = "UncompressedImage")
    => (/\ last.ret = 1
        /\ last.width = hist.width /\ last.height = hist.height
        /\ last.data = hist.data)

\* A 1-pixel-wide, 2-pixel-high PGM whose first pixel is a digit, read back.
C3_Witness ==
  /\ ImageReadBack /\ SuffixCaseEq(hist.path, ".pgm")
  /\ hist.width = 1 /\ hist.height = 2 /\ hist.data[1] = Ord["5"]
  /\ last.ret = 1 /\ last.data = hist.data

\* The last call was a successful ReadImage of the file the last WriteImage
\* wrote with success as a PGM or an uncompressed TIFF, and nothing touched the
\* file in between.
ImageRegionRead ==
  /\ last.op = "ReadImage" /\ last.ret = 1
  /\ hist.op = "WriteImage" /\ hist.ret = 1 /\ hist.state = "intact"
  /\ last.file = hist.file
  /\ hist.width >= 1 /\ hist.height >= 1
  /\ \/ SuffixCaseEq(hist.path, ".pgm")
     \/ SuffixCaseEq(hist.path, ".tif") /\ hist.method = "UncompressedImage"

\* The region asked for is the whole W x H image.
WholeImage(call, W, H) ==
  /\ call.region[1] <= 0 /\ (call.region[2] < 0 \/ call.region[2] = W - 1)
  /\ call.region[3] <= 0 /\ (call.region[4] < 0 \/ call.region[4] = H - 1)

\* The call returned the region xmin..xmax, ymin..ymax of the W x H image src,
\* 0 where the region lies outside the image.
RegionPixels(call, W, H, src, xmin, xmax, ymin, ymax) ==
  /\ call.width = xmax - xmin + 1
  /\ call.height = ymax - ymin + 1
  /\ Len(call.data) = (xmax - xmin + 1) * (ymax - ymin + 1)
  /\ \A y \in ymin..ymax, x \in xmin..xmax :
       call.data[(y - ymin) * (xmax - xmin + 1) + (x - xmin) + 1]
         = IF x < W /\ y < H THEN src[y * W + x + 1] ELSE 0

\* C21: ReadImage with a region returns an image of width xmax-xmin+1 and
\* height ymax-ymin+1 in which, for every y in ymin..ymax and x in xmin..xmax,
\* the pixel (x-xmin, y-ymin) is the source pixel (x, y) when x < W and y < H,
\* and 0 otherwise; for the region that is the whole image the source pixels
\* come back unchanged.
C21_RegionPixels ==
  ImageRegionRead =>
    /\ RegionPixels(last, hist.width, hist.height, hist.data,
                    IF last.region[1] < 0 THEN 0 ELSE last.region[1],
                    IF last.region[2] < 0 THEN hist.width - 1 ELSE last.region[2],
                    IF last.region[3] < 0 THEN 0 ELSE last.region[3],
                    IF last.region[4] < 0 THEN hist.height - 1 ELSE last.region[4])
    /\ WholeImage(last, hist.width, hist.height) => last.data = hist.data

\* A region that starts inside a 2 x 2 image and ends one column past its
\* right edge: each row is a source pixel followed by a 0.
C21_Witness ==
  /\ ImageRegionRead /\ last.region = <<1, 2, 0, 1>>
  /\ hist.width = 2 /\ hist.height = 2
  /\ last.data = <<hist.data[2], 0, hist.data[4], 0>>

\* The last call was a full-region ReadImage that ReadBmpImage served with
\* success.
BmpRead ==
  /\ last.op = "ReadImage" /\ FullRegion(last) /\ last.ret = 1
  /\ SuffixCaseEq(last.file, ".bmp") /\ Exists(fs, last.file)

\* Row r (0-based, in file order) of the pixel array of the BMP stream b, rows
\* being width + (4 - width mod 4) mod 4 bytes apart.
BmpFileRow(b, r) ==
  SubSeq(b, BmpOffset(b) + r * (BmpWidth(b) + BmpPad(BmpWidth(b))) + 1,
            BmpOffset(b) + r * (BmpWidth(b) + BmpPad(BmpWidth(b))) + BmpWidth(b))

\* Row y (0-based) of the image a call returned.
OutputRow(call, y) == SubSeq(call.data, y * call.width + 1, (y + 1) * call.width)

\* C5: ReadBmpImage returns the W x H image whose row H-1-r is the W bytes at
\* file offset bfOffset + r*(W + (4 - W mod 4) mod 4), for every row r.
C5_BmpRows ==
  BmpRead =>
    (/\ last.width = BmpWidth(fs[last.file].bytes)
     /\ last.height = BmpHeight(fs[last.file].bytes)
     /\ \A r \in 0..(last.height - 1) :
          OutputRow(last, last.height - 1 - r) = BmpFileRow(fs[last.file].bytes, r))

\* The reader a lookup used is the one for the extension of the file it opened.
ServedBy(call, ext) == call.file # "" /\ SuffixCaseEq(call.file, ext)

\* The first two bytes of the file the call opened are 'P' and tc.
MagicIs(call, tc) ==
  /\ Exists(fs, call.file)
  /\ Len(fs[call.file].bytes) >= 2
  /\ fs[call.file].bytes[1] = Ord["P"] /\ fs[call.file].bytes[2] = tc

\* C8: a call served by the PGM readers succeeds only on a P5 file, one served
\* by the PPM readers only on a P6 file, one served by the PBM readers only on
\* a P4 file.
C8_MagicChecked ==
  (last.ret = 1 /\ last.op \in {"ReadImage", "ReadImageSize", "ReadBitmap", "ReadBitmapSize"})
    => (/\ ServedBy(last, ".pgm") => MagicIs(last, Ord["5"])
        /\ ServedBy(last, ".ppm") => MagicIs(last, Ord["6"])
        /\ ServedBy(last, ".pbm") => MagicIs(last, Ord["4"]))

\* The last call was a full-region ReadImage that ReadPpmImage served with
\* success, on a P6 file all of whose pixels are gray (R = G = B).
GrayPpmRead ==
  /\ last.op = "ReadImage" /\ FullRegion(last) /\ last.ret = 1
  /\ ServedBy(last, ".ppm") /\ MagicIs(last, Ord["6"])
  /\ \A i \in 1..(last.width * last.height) :
       /\ Getc(fs[last.file].bytes, ReadHeader(fs[last.file].bytes).p + 3 * i - 3)
            = Getc(fs[last.file].bytes, ReadHeader(fs[last.file].bytes).p + 3 * i - 2)
       /\ Getc(fs[last.file].bytes, ReadHeader(fs[last.file].bytes).p + 3 * i - 3)
            = Getc(fs[last.file].bytes, ReadHeader(fs[last.file].bytes).p + 3 * i - 1)

\* C10: pixel i of the image read from a P6 file comes from the i-th RGB triple:
\* where that triple is gray, the pixel is its gray level.
C10_PpmFromTriples ==
  GrayPpmRead =>
    \A i \in 1..(last.width * last.height) :
      last.data[i] = Getc(fs[last.file].bytes, ReadHeader(fs[last.file].bytes).p + 3 * i - 3)

-----------------------------------------------------------------------------
(* SpecTrunc: one file at a time, written in full by WriteMap, WriteImage  *)
(* or WriteBitmap, cut short, and read.                                    *)

\* Widths and heights written: one digit and two, one row and two.
TruncShapes == {<<1, 1>>, <<12, 1>>, <<2, 2>>}

TruncSeeds == {Ord["5"], 250}

WriteTruncMap ==
  \E shape \in TruncShapes, seed \in TruncSeeds :
    /\ fs = NoFiles
    /\ WriteMap("t.map", MapBytes(seed, shape[1] * shape[2]), 0, shape[1], shape[2],
                0 - 3, 7, Str("im"), Str("rf"), "UncompressedMap", TRUE)

WriteTruncImage ==
  \E shape \in TruncShapes, seed \in TruncSeeds :
    /\ fs = NoFiles
    /\ WriteImage("t.pgm", PixelBytes(seed, shape[1] * shape[2]), shape[1], shape[2],
                  "UncompressedImage", TRUE)

WriteTruncBitmap ==
  \E shape \in TruncShapes, seed \in TruncSeeds :
    /\ fs = NoFiles
    /\ WriteBitmap("t.pbm", PixelBytes(seed, Ibpl(shape[1]) * shape[2]), shape[1],
                   shape[2], "UncompressedBitmap", TRUE)

UnlinkTrunc == \E fn \in DOMAIN fs : Unlink(fn)

ReadTruncMap == ReadMap("t.map")

ReadTruncImage == \E rg \in Regions : ReadImage("t.pgm", rg[1], rg[2], rg[3], rg[4])

ReadTruncBitmap ==
  \E rg \in Regions : ReadBitmap("t.pbm", rg[1], rg[2], rg[3], rg[4], 255)

NextTrunc ==
  \/ WriteTruncMap
  \/ WriteTruncImage
  \/ WriteTruncBitmap
  \/ TruncateOp
  \/ UnlinkTrunc
  \/ ReadTruncMap
  \/ ReadTruncImage
  \/ ReadTruncBitmap

SpecTrunc == Init /\ [][NextTrunc]_vars

\* The last call was the full reader of a file that its writer wrote with a
\* non-empty body and that has since been cut to a proper prefix.
TruncatedRead ==
  /\ hist.ret = 1 /\ hist.state = "truncated" /\ hist.data # <<>>
  /\ last.path = hist.path
  /\ \/ last.op = "ReadMap" /\ hist.op = "WriteMap"
     \/ last.op = "ReadImage" /\ hist.op = "WriteImage" /\ SuffixCaseEq(hist.path, ".pgm")
     \/ last.op = "ReadBitmap" /\ hist.op = "WriteBitmap" /\ SuffixCaseEq(hist.path, ".pbm")

\* C9: ReadMap, ReadImage of a .pgm and ReadBitmap of a .pbm return 0 with an
\* error on every proper prefix of a file that WriteMap, WriteImage or
\* WriteBitmap wrote with a non-empty body.
C9_TruncatedRejected == TruncatedRead => (last.ret = 0 /\ last.err)

\* A PGM of two rows cut inside its second row, and ReadImage refusing it.
C9_Witness ==
  /\ TruncatedRead /\ last.op = "ReadImage"
  /\ hist.height = 2
  /\ Len(fs[hist.file].bytes) = Len(PgmHeader(hist.width, hist.height)) + 3
  /\ last.ret = 0 /\ last.err

-----------------------------------------------------------------------------
(* SpecBitmap: bitmaps written under one basename with and without an      *)
(* extension, and read back by name.                                       *)

\* The width of the wider bitmap written: more than one byte per row.
MaxBitmapWidth == 9

\* Width and height of the bitmaps written; the first has no rows to write.
BitmapShapes == {<<0, 1>>, <<1, 1>>, <<MaxBitmapWidth, 2>>}

BitmapPaths == {"n", "n.pbm", "n.pbm.gz", ".pbm", "n.x"}

BitmapWriteOp ==
  \E filename \in BitmapPaths, shape \in BitmapShapes :
    WriteBitmap(filename, PixelBytes(250, Ibpl(shape[1]) * shape[2]), shape[1],
                shape[2], "UncompressedBitmap", TRUE)

BitmapUnlinkOp == \E fn \in DOMAIN fs : Unlink(fn)

BitmapSizeOp == \E filename \in BitmapPaths : ReadBitmapSize(filename)

BitmapReadOp ==
  \E filename \in BitmapPaths, rg \in {<<0 - 1, 0 - 1, 0 - 1, 0 - 1>>, <<1, 2, 0, 1>>},
     junk \in {0, 255} :
    ReadBitmap(filename, rg[1], rg[2], rg[3], rg[4], junk)

NextBitmap == BitmapWriteOp \/ BitmapUnlinkOp \/ BitmapSizeOp \/ BitmapReadOp

SpecBitmap == Init /\ [][NextBitmap]_vars

\* The name has no dot: WriteBitmap appends .pbm to it, ReadBitmap probes.
NoExtension(path) == \A i \in 1..Len(path) : SubSeq(path, i, i) # "."

\* The last call was a full-region ReadBitmap of the name the last WriteBitmap
\* was given, which wrote a bitmap of width >= 1 and height >= 1 with success,
\* and nothing touched the file it wrote in between.
BitmapReadBack ==
  /\ last.op = "ReadBitmap" /\ FullRegion(last)
  /\ hist.op = "WriteBitmap" /\ hist.ret = 1 /\ hist.state = "intact"
  /\ last.path = hist.path
  /\ hist.width >= 1 /\ hist.height >= 1

\* ReadBitmap succeeded and returned what WriteBitmap was given.
BitmapRoundTrip ==
  /\ last.ret = 1
  /\ last.width = hist.width /\ last.height = hist.height
  /\ last.data = hist.data

\* C4 as stated: the round trip holds for every name that ends in .pbm or in
\* .pbm.gz or has no extension.
C4_AnyNameRoundTrip ==
  (/\ BitmapReadBack
   /\ \/ SuffixCaseEq(hist.path, ".pbm")
      \/ SuffixCaseEq(hist.path, ".pbm.gz")
      \/ NoExtension(hist.path))
    => BitmapRoundTrip

\* The probe of the last call reached <name>.pbm.gz before <name>.pbm and found
\* a file there.
ShadowedByPbmgz ==
  last.ext0 = 1 /\ Exists(fs, last.path \o ".pbm.gz")

\* C4: the round trip holds for names that end in .pbm or .pbm.gz and are
\* longer than that extension, and for names with no extension unless the
\* cached bitmap extension index is 1 and <name>.pbm.gz exists.
C4_BitmapRoundTrip ==
  (/\ BitmapReadBack
   /\ \/ Len(hist.path) > 4 /\ SuffixCaseEq(hist.path, ".pbm")
      \/ Len(hist.path) > 7 /\ SuffixCaseEq(hist.path, ".pbm.gz")
      \/ NoExtension(hist.path) /\ ~ShadowedByPbmgz)
    => BitmapRoundTrip

\* A two-row bitmap written under the bare basename and read back by probing,
\* the probe starting at .pbm.gz and going on to .pbm.
C4_Witness ==
  /\ BitmapReadBack /\ NoExtension(hist.path)
  /\ hist.height = 2 /\ last.probes = <<1, 0>>
  /\ BitmapRoundTrip

\* The last call was a successful ReadBitmap of the file the last WriteBitmap
\* wrote with success, and nothing touched the file in between.
BitmapRegionRead ==
  /\ last.op = "ReadBitmap" /\ last.ret = 1
  /\ hist.op = "WriteBitmap" /\ hist.ret = 1 /\ hist.state = "intact"
  /\ last.file = hist.file
  /\ hist.width >= 1 /\ hist.height >= 1

\* The bounds of the region asked for, for a source of width W and height H.
RegionXmin(call) == IF call.region[1] < 0 THEN 0 ELSE call.region[1]
RegionXmax(call, W) == IF call.region[2] < 0 THEN W - 1 ELSE call.region[2]
RegionYmin(call) == IF call.region[3] < 0 THEN 0 ELSE call.region[3]
RegionYmax(call, H) == IF call.region[4] < 0 THEN H - 1 ELSE call.region[4]

\* The call returned a bitmap of the width and height of the region whose
\* rows ymin..ylast hold the source bits inside the source and 0 outside.
RegionBitsUpTo(call, W, H, src, xmin, xmax, ymin, ymax, ylast) ==
  /\ call.width = xmax - xmin + 1
  /\ call.height = ymax - ymin + 1
  /\ Len(call.data) = (ymax - ymin + 1) * ((xmax - xmin + 1 + 7) \div 8)
  /\ \A y \in ymin..ylast, x \in xmin..xmax :
       BitAt(call.data, (xmax - xmin + 1 + 7) \div 8, y - ymin, x - xmin)
         = IF x < W /\ y < H THEN BitAt(src, (W + 7) \div 8, y, x) ELSE 0

\* C20: ReadBitmap with a region returns a bitmap of width xmax-xmin+1 and
\* height ymax-ymin+1 with row stride (w+7)/8 in which, for every row y in
\* ymin..ymax and every column x in xmin..xmax, the bit (x-xmin, y-ymin) is the
\* source bit (x, y) when x < W and y < H, and 0 otherwise.
C20_RegionBits ==
  BitmapRegionRead =>
    RegionBitsUpTo(last, hist.width, hist.height, hist.data,
                   RegionXmin(last), RegionXmax(last, hist.width),
                   RegionYmin(last), RegionYmax(last, hist.height),
                   RegionYmax(last, hist.height))

\* The same for the rows ymin..ymax-1 of a region that is not the whole
\* bitmap.
C20_RegionBitsButLastRow ==
  BitmapRegionRead /\ ~FullRegion(last) =>
    RegionBitsUpTo(last, hist.width, hist.height, hist.data,
                   RegionXmin(last), RegionXmax(last, hist.width),
                   RegionYmin(last), RegionYmax(last, hist.height),
                   RegionYmax(last, hist.height) - 1)

-----------------------------------------------------------------------------
(* SpecWrite: WriteImage on paths of every kind with every method.         *)

\* enum ImageCompression, and a value outside it.
AllImageMethods ==
  {"UncompressedImage", "HDiffDeflateImage", "JpegQuality95", "JpegQuality90",
   "JpegQuality85", "JpegQuality80", "JpegQuality75", "JpegQuality70", "OtherImage"}

\* Paths of each format in several letter cases, and paths of no format.
WritePaths ==
  {"w.tif", "w.TIFF", "w.pgm", "w.PGM", "w.jpg", "w.Jpg", "w.jpeg", "w.png", ".pgm"}

WriteAnyImage ==
  \E filename \in WritePaths, compressionMethod \in AllImageMethods, height \in 1..2 :
    /\ fs = NoFiles
    /\ WriteImage(filename, PixelBytes(250, height), 1, height, compressionMethod, TRUE)

UnlinkWritten == \E fn \in DOMAIN fs : Unlink(fn)

SizeOfWritten == \E filename \in DOMAIN fs : ReadImageSize(filename)

NextWrite == WriteAnyImage \/ UnlinkWritten \/ SizeOfWritten

SpecWrite == Init /\ [][NextWrite]_vars

TiffPath(path) == SuffixCaseEq(path, ".tif") \/ SuffixCaseEq(path, ".tiff")
JpgPath(path) == SuffixCaseEq(path, ".jpg")
PgmPath(path) == SuffixCaseEq(path, ".pgm")

TiffMethods == {"UncompressedImage", "HDiffDeflateImage"}

\* The quality number each JPEG method stands for.
QualityNumber ==
  ("JpegQuality95" :> 95) @@ ("JpegQuality90" :> 90) @@ ("JpegQuality85" :> 85) @@
  ("JpegQuality80" :> 80) @@ ("JpegQuality75" :> 75) @@ ("JpegQuality70" :> 70)

\* The file the last call wrote is of the format of its path, written with the
\* method given.
WrittenAsAsked ==
  \/ /\ TiffPath(last.path) /\ last.method \in TiffMethods
     /\ fs[last.file].kind = "tiff" /\ fs[last.file].tags.comp = last.method
  \/ /\ JpgPath(last.path) /\ last.method \in DOMAIN QualityNumber
     /\ fs[last.file].kind = "jpeg"
     /\ fs[last.file].tags.quality = QualityNumber[last.method]
  \/ /\ PgmPath(last.path)
     /\ fs[last.file].kind = "raw"
     /\ SubSeq(fs[last.file].bytes, 1, 3) = <<Ord["P"], Ord["5"], NL>>

\* C11: WriteImage returns 1 only for a .tif/.tiff path with UncompressedImage
\* or HDiffDeflateImage, a .jpg path with one of the six JPEG qualities (the
\* file then carries exactly that quality) or a .pgm path (the file is then a
\* P5), the extension compared without regard to case; for any other extension
\* and for any other method on a TIFF or JPEG path it returns 0 with an error.
C11_FormatAndMethod ==
  last.op = "WriteImage" =>
    (/\ last.ret \in {0, 1}
     /\ last.ret = 1 => (last.file = last.path /\ WrittenAsAsked)
     /\ (\/ ~(TiffPath(last.path) \/ JpgPath(last.path) \/ PgmPath(last.path))
         \/ TiffPath(last.path) /\ last.method \notin TiffMethods
         \/ JpgPath(last.path) /\ last.method \notin DOMAIN QualityNumber)
          => (last.ret = 0 /\ last.err))

\* A .Jpg path written with JpegQuality85.
C11_Witness ==
  /\ last.op = "WriteImage" /\ last.path = "w.Jpg" /\ last.method = "JpegQuality85"
  /\ last.ret = 1 /\ fs["w.Jpg"].tags.quality = 85

-----------------------------------------------------------------------------
(* SpecMissing: the five read operations on paths with and without a file. *)

MissingFiles ==
  {<<"m.pgm", PnmFile(Ord["5"], 1, 1, <<4>>)>>,
   <<"m.PBM", PnmFile(Ord["4"], 1, 1, <<128>>)>>,
   <<"m.jpg", RawFile(Str("x"))>>,
   <<"m.map", RawFile(MapHeader(0, 1, 1, 0, 0, Str("a"), Str("b")) \o Zeros(SizeofMapElement))>>}

MissingPaths ==
  {"m", "k", "m.pgm", "m.jpg", "k.tif", "k.jpg", "k.bmp", "k.pgm", "m.pbm", "k.pbm",
   "k.pbm.gz", "m.map", "k.map"}

PutMissingFile == \E pf \in MissingFiles : PutFile(pf[1], pf[2])

UnlinkMissingFile == \E fn \in DOMAIN fs : Unlink(fn)

MissingReadImageSize == \E filename \in MissingPaths : ReadImageSize(filename)

MissingReadImage == \E filename \in MissingPaths : ReadImage(filename, 0 - 1, 0 - 1, 0 - 1, 0 - 1)

MissingReadBitmapSize == \E filename \in MissingPaths : ReadBitmapSize(filename)

MissingReadBitmap ==
  \E filename \in MissingPaths : ReadBitmap(filename, 0 - 1, 0 - 1, 0 - 1, 0 - 1, 0)

MissingReadMap == \E filename \in MissingPaths : ReadMap(filename)

NextMissing ==
  \/ PutMissingFile \/ UnlinkMissingFile \/ MissingReadImageSize \/ MissingReadImage
  \/ MissingReadBitmapSize \/ MissingReadBitmap \/ MissingReadMap

SpecMissing == Init /\ [][NextMissing]_vars

ReadOps == {"ReadImageSize", "ReadImage", "ReadBitmapSize", "ReadBitmap", "ReadMap"}

\* Neither the path nor the path with any extension appended names a file.
NoFileFor(path) ==
  /\ ~Exists(fs, path)
  /\ \A k \in 1..N_EXTENSIONS : ~Exists(fs, path \o extensions[k])
  /\ \A k \in 1..N_BITMAP_EXTENSIONS : ~Exists(fs, path \o bitmapExtensions[k])

\* C12: a read operation on a path for which no file exists (neither the path
\* itself nor any candidate made from it) returns 0 with the error buffer
\* written and leaves both cached extension indices as they were.
C12_MissingFails ==
  [][(last'.op \in ReadOps /\ fs' = fs /\ NoFileFor(last'.path))
       => (/\ last'.ret = 0 /\ last'.err
           /\ extension' = extension /\ bitmapExtension' = bitmapExtension)]_vars

\* The same for every path that does not end in .pbm.gz.
C12_MissingFailsButGz ==
  [][(/\ last'.op \in ReadOps /\ fs' = fs /\ NoFileFor(last'.path)
      /\ ~SuffixCaseEq(last'.path, ".pbm.gz"))
       => (/\ last'.ret = 0 /\ last'.err
           /\ extension' = extension /\ bitmapExtension' = bitmapExtension)]_vars

PublicOps ==
  ReadOps \cup {"WriteImage", "WriteBitmap", "WriteMap"}

\* C13: a call of a public operation returns 1 or 0; when it returns 0 the
\* error buffer has been written, when it returns 1 it has not.
C13_ReturnsWithError ==
  last.op \in PublicOps =>
    (/\ last.ret \in {0, 1}
     /\ last.ret = 0 => last.err
     /\ last.ret = 1 => ~last.err)

\* The same for the calls that return at all.
C13_ReturnedWithError ==
  (last.op \in PublicOps /\ last.ret >= 0) =>
    (/\ last.ret \in {0, 1}
     /\ last.ret = 0 => last.err
     /\ last.ret = 1 => ~last.err)

-----------------------------------------------------------------------------
(* SpecPrefix: a .pgm or .pbm file whose writer has got as far as some     *)
(* prefix of it, and a reader asking for its size.                         *)

\* Widths and heights written: one digit and two.
PrefixShapes == {<<1, 1>>, <<12, 1>>, <<1, 12>>}

WritePrefixImage ==
  \E shape \in PrefixShapes :
    /\ fs = NoFiles
    /\ WriteImage("t.pgm", PixelBytes(250, shape[1] * shape[2]), shape[1], shape[2],
                  "UncompressedImage", TRUE)

WritePrefixBitmap ==
  \E shape \in PrefixShapes :
    /\ fs = NoFiles
    /\ WriteBitmap("t.pbm", PixelBytes(250, Ibpl(shape[1]) * shape[2]), shape[1],
                   shape[2], "UncompressedBitmap", TRUE)

\* WriteImage and WriteBitmap fopen the final path itself and write into it:
\* until fclose a reader finds a prefix of the file there.
PrefixOp == TruncateOp

UnlinkPrefix == \E fn \in DOMAIN fs : Unlink(fn)

SizeOfPrefixImage == ReadImageSize("t.pgm")

SizeOfPrefixBitmap == ReadBitmapSize("t.pbm")

NextPrefix ==
  \/ WritePrefixImage \/ WritePrefixBitmap \/ PrefixOp \/ UnlinkPrefix
  \/ SizeOfPrefixImage \/ SizeOfPrefixBitmap

SpecPrefix == Init /\ [][NextPrefix]_vars

\* The last call was the size reader of a file of which a prefix (or all) of
\* what its writer writes is there.
PrefixSizeRead ==
  /\ hist.ret = 1 /\ hist.state \in {"intact", "truncated"}
  /\ last.path = hist.path
  /\ \/ last.op = "ReadImageSize" /\ hist.op = "WriteImage"
     \/ last.op = "ReadBitmapSize" /\ hist.op = "WriteBitmap"

\* C15: ReadImageSize of a .pgm and ReadBitmapSize of a .pbm, called while
\* WriteImage or WriteBitmap has written any prefix of the file, either fail or
\* report exactly the width and height of the finished file.
C15_PrefixSize ==
  PrefixSizeRead =>
    \/ last.ret = 0
    \/ last.ret = 1 /\ last.width = hist.width /\ last.height = hist.height

\* The same for the .pgm files alone.
C15_PgmPrefixSize ==
  PrefixSizeRead /\ last.op = "ReadImageSize" =>
    \/ last.ret = 0
    \/ last.ret = 1 /\ last.width = hist.width /\ last.height = hist.height

-----------------------------------------------------------------------------
(* SpecDispatch: the dispatcher with units that fail up to maxRetries + 1  *)
(* times.  SpecDispatchFair: the dispatcher with units that fail at most   *)
(* maxRetries times, every process taking the steps it can take.           *)

InitDispatch ==
  /\ fs = NoFiles /\ extension = 0 /\ bitmapExtension = 0
  /\ last = NoCall /\ hist = NoWrite
  /\ master = MasterStart /\ worker = WorkerStart /\ net = NetStart
  /\ \E budget \in [Units -> 0..(maxRetries + 1)] : env = EnvStart(budget)

InitDispatchBounded ==
  /\ fs = NoFiles /\ extension = 0 /\ bitmapExtension = 0
  /\ last = NoCall /\ hist = NoWrite
  /\ master = MasterStart /\ worker = WorkerStart /\ net = NetStart
  /\ \E budget \in [Units -> 0..maxRetries] : env = EnvStart(budget)

WorkerNext(w) == WorkerReady(w) \/ WorkerReceive(w) \/ WorkerLog(w) \/ WorkerDone(w)

MasterNext == \E w \in Workers : MasterReady(w) \/ MasterDone(w) \/ MasterLog(w)

NextDispatch ==
  \/ \E w \in Workers : WorkerReady(w)
  \/ \E w \in Workers : WorkerReceive(w)
  \/ \E w \in Workers : WorkerLog(w)
  \/ \E w \in Workers : WorkerDone(w)
  \/ \E w \in Workers : MasterReady(w)
  \/ \E w \in Workers : MasterDone(w)
  \/ \E w \in Workers : MasterLog(w)

SpecDispatch == InitDispatch /\ [][NextDispatch]_vars

\* Every worker is a process of its own and the master blocks on nothing but
\* message receive: each takes a step it can take.
SpecDispatchFair ==
  /\ InitDispatchBounded /\ [][NextDispatch]_vars
  /\ \A w \in Workers : WF_vars(WorkerNext(w))
  /\ WF_vars(MasterNext)

\* No unit has been assigned more than maxRetries + 1 times or requeued more
\* than maxRetries times, and a unit is permanently failed only with
\* maxRetries + 1 failures reported.
RetriesBounded ==
  \A u \in Units :
    /\ env.assigned[u] <= maxRetries + 1
    /\ master.retries[u] <= maxRetries
    /\ master.state[u] = "failed" => env.failures[u] = maxRetries + 1

\* A permanently failed unit stays so and is not assigned again.
FailedForGood ==
  \A u \in Units :
    master.state[u] = "failed" =>
      /\ master'.state[u] = "failed"
      /\ env'.assigned[u] = env.assigned[u]

\* C16: a unit that reports DONE(FAIL) is requeued at most maxRetries times: no
\* unit is assigned more than maxRetries + 1 times, a unit is marked permanently
\* failed only after its (maxRetries + 1)-th failure, and a permanently failed
\* unit is never assigned again.
C16_RetriesBounded == []RetriesBounded /\ [][FailedForGood]_vars

\* A unit has been assigned maxRetries + 1 times, failed each time and is
\* permanently failed, while another is done.
C16_Witness ==
  \E u, v \in Units :
    /\ master.state[u] = "failed" /\ env.assigned[u] = maxRetries + 1
    /\ master.retries[u] = maxRetries
    /\ master.state[v] = "ok"

AllDone == \A u \in Units : master.state[u] = "ok"

\* The units the master has out with worker w.
HeldBy(w) == {u \in Units : master.state[u] = "assigned" /\ master.holder[u] = w}

\* No worker has more than one unit, and EXIT has gone out only with the queue
\* drained.
OneUnitEach ==
  /\ \A w \in Workers : Cardinality(HeldBy(w)) <= 1
  /\ \A w \in Workers :
       worker[w].pc = "running" => HeldBy(w) = {worker[w].unit}
  /\ master.exitSent # {} => (master.queue = <<>> /\ Terminal(master))

\* When all is done every unit has been retried as often as it failed.
RetriedAsFailed ==
  AllDone => \A u \in Units : master.retries[u] = env.fails0[u]
                              /\ env.assigned[u] = env.fails0[u] + 1

\* C17: when no unit fails more than maxRetries times, every unit eventually
\* reaches DONE(OK), a unit that fails once is retried exactly once, each
\* worker holds at most one unit at any time, and the master sends EXIT only
\* after the queue has drained.
C17_AllEventuallyDone == <>[]AllDone /\ []OneUnitEach /\ []RetriedAsFailed

\* All units are done, one of them after exactly one failure and one retry,
\* and every worker has received EXIT.
C17_Witness ==
  /\ AllDone
  /\ \E u \in Units : env.fails0[u] = 1 /\ master.retries[u] = 1
  /\ \A w \in Workers : worker[w].pc = "exited"

-----------------------------------------------------------------------------
(* SpecAgree: one bitmap file n.pbm or n.pbm.gz, whole or cut short, looked *)
(* up by the basename n with ReadBitmapSize and with ReadBitmap.            *)

WriteAgreeBitmap ==
  \E filename \in {"n.pbm", "n.pbm.gz"}, shape \in {<<1, 1>>, <<MaxBitmapWidth, 2>>} :
    /\ fs = NoFiles
    /\ WriteBitmap(filename, PixelBytes(250, Ibpl(shape[1]) * shape[2]), shape[1],
                   shape[2], "UncompressedBitmap", TRUE)

CutAgreeBitmap == TruncateOp

UnlinkAgreeBitmap == \E fn \in DOMAIN fs : Unlink(fn)

AgreeSize == ReadBitmapSize("n")

AgreeRead == ReadBitmap("n", 0 - 1, 0 - 1, 0 - 1, 0 - 1, 0)

NextAgree ==
  WriteAgreeBitmap \/ CutAgreeBitmap \/ UnlinkAgreeBitmap \/ AgreeSize \/ AgreeRead

SpecAgree == Init /\ [][NextAgree]_vars

\* The last call looked the basename up, ReadBitmap for the whole bitmap.
LookupByBasename ==
  /\ last.path = "n"
  /\ last.op = "ReadBitmapSize" \/ (last.op = "ReadBitmap" /\ FullRegion(last))

\* What the other of the two operations returns for the same name, files and
\* cached index as the last call.
OtherLookup ==
  IF last.op = "ReadBitmapSize"
  THEN BitmapRegion(BitmapCall(fs, last.ext0, last.path), 0 - 1, 0 - 1, 0 - 1, 0 - 1, 0)
  ELSE BitmapSizeCall(fs, last.ext0, last.path)

\* Both succeed or both fail, on the same file, with the same width and
\* height and the same cached index afterwards.
LookupsAgree(a, b) ==
  /\ a.ret = 1 <=> b.ret = 1
  /\ a.file = b.file
  /\ a.ret = 1 => (a.width = b.width /\ a.height = b.height)
  /\ CacheAfter(a, a.ext0) = CacheAfter(b, b.ext0)
  /\ bitmapExtension = CacheAfter(a, a.ext0)

\* The one file there is the file WriteBitmap wrote, as it wrote it.
AsWritten == hist.ret = 1 /\ hist.state = "intact" /\ DOMAIN fs = {hist.file}

\* C22 as stated: with only n.pbm there, a valid P4 file, or only n.pbm.gz
\* there, ReadBitmapSize and full-region ReadBitmap of the basename succeed
\* together, on the same file, with the same width and height, and leave the
\* same cached bitmap extension index.
C22_LookupsAgree ==
  (/\ LookupByBasename
   /\ \/ DOMAIN fs = {"n.pbm"} /\ AsWritten
      \/ DOMAIN fs = {"n.pbm.gz"})
    => LookupsAgree(last, OtherLookup)

\* C22, amended: the same when the one file there, n.pbm or n.pbm.gz, is a
\* complete P4 bitmap (plain or gzip-compressed) with all of its rows.
C22_LookupsAgreeOnWhole ==
  (/\ LookupByBasename
   /\ DOMAIN fs = {"n.pbm"} \/ DOMAIN fs = {"n.pbm.gz"}
   /\ AsWritten)
    => LookupsAgree(last, OtherLookup)

\* ReadBitmapSize of the basename with the cache at 1 found n.pbm after
\* n.pbm.gz, and ReadBitmap would have found the same two-row bitmap.
C22_Witness ==
  /\ LookupByBasename /\ last.op = "ReadBitmapSize" /\ last.ret = 1
  /\ last.probes = <<1, 0>> /\ last.file = "n.pbm" /\ AsWritten
  /\ hist.height = 2
  /\ OtherLookup.ret = 1 /\ OtherLookup.data = hist.data

\* ---------------------------------------------------------------------------
\* File handles.

\* C24: every file handle opened by a read or write operation is closed
\* before the operation returns, on every return path: no call of a public
\* operation ends with a handle it opened still open.
C24_HandlesClosed == last.op \in PublicOps => last.leaked = 0

\* A call that returned 1 has closed every handle it opened.
C24_HandlesClosedOnSuccess ==
  (last.op \in PublicOps /\ last.ret = 1) => last.leaked = 0

\* A read that rejected a header, or met a truncated body, has returned with
\* the handle still open.
C24_Leak ==
  /\ last.op \in ReadOps
  /\ last.ret = 0
  /\ last.file # ""
  /\ last.leaked = 1

\* ---------------------------------------------------------------------------
\* Writes refused for their compression method.

\* The step is a WriteMap with a method other than UncompressedMap.
MapMethodRefused ==
  /\ last'.op = "WriteMap" /\ last'.ret = 0
  /\ hist'.op = "WriteMap" /\ hist'.path = last'.path
  /\ hist'.method # "UncompressedMap"

\* The step is a WriteImage to a .jpg path with a method that is no JPEG quality.
JpgMethodRefused ==
  /\ last'.op = "WriteImage" /\ last'.ret = 0
  /\ Len(last'.path) >= 5 /\ ~TiffPath(last'.path) /\ ~PgmPath(last'.path)
  /\ JpgPath(last'.path)
  /\ last'.method \notin DOMAIN QualityNumber

\* The step is a WriteImage to a .tif or .tiff path with a method that is
\* neither UncompressedImage nor HDiffDeflateImage.
TiffMethodRefused ==
  /\ last'.op = "WriteImage" /\ last'.ret = 0
  /\ Len(last'.path) >= 5 /\ TiffPath(last'.path)
  /\ last'.method \notin TiffMethods

\* C25: a write that fails because the compression method is unsupported
\* leaves the target file untouched: WriteMap with a method other than
\* UncompressedMap, and WriteImage to a .tif/.tiff or .jpg path with a method
\* invalid for the format, return 0 without creating the file and without
\* truncating an existing one.
C25_RefusedLeavesFile ==
  [][(MapMethodRefused \/ JpgMethodRefused \/ TiffMethodRefused) => fs' = fs]_vars

\* The same for WriteMap and for the .jpg paths of WriteImage.
C25_RefusedLeavesFileButTiff ==
  [][(MapMethodRefused \/ JpgMethodRefused) => fs' = fs]_vars

\* A WriteMap with an unsupported method was refused over an existing file.
C25_MapRefusedOverFile ==
  /\ last.op = "WriteMap" /\ last.ret = 0
  /\ hist.op = "WriteMap" /\ hist.method # "UncompressedMap"
  /\ Exists(fs, last.path)

\* A WriteImage to a .jpg path was refused for its method.
C25_JpgRefused ==
  /\ last.op = "WriteImage" /\ last.ret = 0
  /\ JpgPath(last.path) /\ last.method \notin DOMAIN QualityNumber

-----------------------------------------------------------------------------
(* SpecHeader: netpbm headers with and without a comment line, as files    *)
(* h<ext> (no comment) and c<ext> (the same bytes with one comment line    *)
(* inserted), read by every operation that goes through ReadHeader or      *)
(* ReadGZHeader.                                                           *)

MaxHeaderWidth == 10

HeaderExts == {".pgm", ".ppm", ".pbm", ".pbm.gz"}

\* Comment lines: empty, and with text that holds a digit and a 'P'.
HeaderComments == {Str("#") \o <<NL>>, Str("# P5 3") \o <<NL>>}

\* Where the comment goes: 0 nowhere, 1 before the magic number, 2 between the
\* magic number and the width, 3 between the width and the height, 4 between
\* the height and maxval.
CommentPlaces == 1..4

\* The white space between two header fields, with the comment on one side of
\* it when this is the comment's place.
HeaderGap(place, k, sep, com, before) ==
  IF place # k THEN <<sep>>
  ELSE IF before THEN com \o <<sep>>
  ELSE <<sep>> \o com

\* A header of type tc for a width x 1 image and its pixels.
HeaderBytes(tc, width, sep, place, com, before) ==
  (IF place = 1 THEN com ELSE <<>>) \o
  Str("P") \o <<tc>> \o HeaderGap(place, 2, sep, com, before) \o
  FmtInt(width) \o HeaderGap(place, 3, sep, com, before) \o
  FmtInt(1) \o
  (IF tc = Ord["4"] THEN <<NL>>
   ELSE HeaderGap(place, 4, sep, com, before) \o Str("255") \o <<NL>>) \o
  PixelBytes(7, 3 * width)

\* The bytes as a plain file, or deflated when the name ends in .gz and zipped
\* is chosen.
HeaderFile(ext, zipped, bytes) ==
  RawFile(IF zipped /\ SuffixCaseEq(ext, ".gz") THEN GzEncode(bytes) ELSE bytes)

HeaderPair(ext, zipped, tc, width, sep, place, com, before) ==
  Store(Store(NoFiles, "h" \o ext,
              HeaderFile(ext, zipped, HeaderBytes(tc, width, sep, 0, com, before))),
        "c" \o ext,
        HeaderFile(ext, zipped, HeaderBytes(tc, width, sep, place, com, before)))

InitHeader ==
  /\ \E ext \in HeaderExts, zipped \in BOOLEAN, tc \in {Ord["4"], Ord["5"], Ord["6"]},
        width \in {1, MaxHeaderWidth}, sep \in {Ord[" "], NL},
        place \in CommentPlaces, com \in HeaderComments, before \in BOOLEAN :
       /\ place = 4 => tc # Ord["4"]
       /\ zipped => SuffixCaseEq(ext, ".gz")
       /\ fs = HeaderPair(ext, zipped, tc, width, sep, place, com, before)
  /\ extension = 0
  /\ bitmapExtension = 0
  /\ last = NoCall
  /\ hist = NoWrite
  /\ DispatchIdle

HeaderImageSize == \E fn \in DOMAIN fs : ReadImageSize(fn)

HeaderImage == \E fn \in DOMAIN fs : ReadImage(fn, 0 - 1, 0 - 1, 0 - 1, 0 - 1)

HeaderBitmapSize == \E fn \in DOMAIN fs : ReadBitmapSize(fn)

HeaderBitmap == \E fn \in DOMAIN fs : ReadBitmap(fn, 0 - 1, 0 - 1, 0 - 1, 0 - 1, 0)

NextHeader == HeaderImageSize \/ HeaderImage \/ HeaderBitmapSize \/ HeaderBitmap

SpecHeader == InitHeader /\ [][NextHeader]_vars

\* What ReadHeader, or ReadGZHeader for a .gz name, makes of the file.
HeaderOf(f, fn) ==
  IF SuffixCaseEq(fn, ".gz") THEN ReadGZHeader(GzStream(StreamOf(f, fn)))
  ELSE ReadHeader(StreamOf(f, fn))

\* The same return value, tc, width, height and maxval.
SameHeader(a, b) ==
  /\ a.ok = b.ok /\ a.tc = b.tc /\ a.w = b.w /\ a.h = b.h /\ a.m = b.m

\* The file with the comment starts with it.
CommentFirst(f, fn) == Getc(StreamOf(f, fn), 1) = Ord["#"] \/
                       Getc(GzStream(StreamOf(f, fn)), 1) = Ord["#"]

\* C26: ReadHeader and ReadGZHeader skip '#' comment lines: a comment line
\* inserted before the magic number, between the magic number and the width,
\* between the width and the height, or between the height and maxval leaves
\* the return value, tc, width, height and maxval what they are without it.
C26_CommentsSkipped ==
  \A ext \in HeaderExts :
    (Exists(fs, "c" \o ext) /\ Exists(fs, "h" \o ext)) =>
      SameHeader(HeaderOf(fs, "c" \o ext), HeaderOf(fs, "h" \o ext))

\* The same for the comments after the magic number.
C26_CommentsSkippedAfterMagic ==
  \A ext \in HeaderExts :
    (Exists(fs, "c" \o ext) /\ Exists(fs, "h" \o ext)
       /\ ~CommentFirst(fs, "c" \o ext)) =>
      SameHeader(HeaderOf(fs, "c" \o ext), HeaderOf(fs, "h" \o ext))

\* A size was read from a header with a comment after its magic number.
C26_CommentRead ==
  /\ last.op \in {"ReadImageSize", "ReadBitmapSize"} /\ last.ret = 1
  /\ last.width = MaxHeaderWidth
  /\ \E ext \in HeaderExts :
       /\ last.file = "c" \o ext
       /\ ~CommentFirst(fs, last.file)
       /\ StreamOf(fs, last.file) # StreamOf(fs, "h" \o ext)

=============================================================================
